---- MODULE Spec2Model ----
(***************************************************************************)
(* KitchZero backend: authentication / session lifecycle and the tenant    *)
(* and branch isolation of the HTTP routes, as a state machine.            *)
(*                                                                         *)
(* The store (tables users, tenants, branches, categories, refresh_tokens) *)
(* is the state.  A login call is three store round trips (SELECT, UPDATE, *)
(* INSERT) with a suspension point between them, so it is three actions    *)
(* per in-flight call; the other handlers are single actions.              *)
(* Time is a discrete clock; one tick is 15 minutes.                       *)
(* The pure functions (password strength, token signing and verification)  *)
(* are operators, applied by actions of specifications of their own.       *)
(***************************************************************************)
EXTENDS Integers, FiniteSets, Sequences, TLC

\* ------------------------------------------------------------------ bounds
MaxTime == 2
MaxTokens == 1
MaxFailed == 7
MaxPrefix == 3      \* length of the freely chosen head of a tested password
MaxPad == 12        \* how many times the padding character is appended to it

\* ------------------------------------------------------- program constants
MaxLoginAttempts == 5
LockoutTime == 2
AccessTTL == 1
RefreshTTL == 672

\* SQL NULL / undefined: for a timestamp column, and for an id
NULL == 0 - 1
NoId == "null"

Roles == {"super_admin", "tenant_admin", "branch_admin"}
TenantIds == {"T1", "T2"}
BranchIds == {"B1", "B2", "B3"}
UserIds == {"u1", "u2", "u3", "u4"}
Slots == {1, 2}
SubscriptionStatuses == {"trial", "active", "suspended", "cancelled"}

VARIABLES
  now,             \* the wall clock, in ticks
  users,           \* table users: id -> row
  tenants,         \* table tenants: id -> row
  branches,        \* table branches: id -> row
  categories,      \* table categories: id -> row
  refresh_tokens,  \* table refresh_tokens: a set of rows, token unique
  accessTokens,    \* access tokens handed to clients (never stored server-side)
  req,             \* the in-flight login calls: slot -> position and locals
  resp,            \* the response of the step just taken
  streak,          \* history: wrong-password calls since the last successful login
  lockSet,         \* history: the lockUntil written by the latest locking call
  revokedAll       \* history: tokens that were covered by a revoke-all of their owner

vars == <<now, users, tenants, branches, categories, refresh_tokens, accessTokens,
          req, resp, streak, lockSet, revokedAll>>

\* ------------------------------------------------------------------ tables
UserRow(name, role, t, b) ==
  [username |-> name, role |-> role, tenant_id |-> t, branch_id |-> b,
   is_active |-> TRUE, deleted_at |-> FALSE,
   failed_login_attempts |-> 0, locked_until |-> NULL, last_login_at |-> NULL]

SeedUsers ==
  [u \in UserIds |->
     CASE u = "u1" -> UserRow("root", "super_admin", NoId, NoId)
       [] u = "u2" -> UserRow("alice", "tenant_admin", "T1", NoId)
       [] u = "u3" -> UserRow("bob", "branch_admin", "T1", "B1")
       [] u = "u4" -> UserRow("carol", "tenant_admin", "T2", NoId)]

TenantRow(slug) ==
  [slug |-> slug, is_active |-> TRUE, deleted_at |-> FALSE, subscription_status |-> "trial"]

SeedTenants == [t \in TenantIds |-> TenantRow(t)]

SeedBranches ==
  [b \in BranchIds |->
     [tenant_id |-> IF b = "B3" THEN "T2" ELSE "T1",
      is_active |-> TRUE, deleted_at |-> FALSE]]

CategoryIds == {"c1", "c2"}

SeedCategories ==
  [c \in CategoryIds |->
     [tenant_id |-> IF c = "c1" THEN "T1" ELSE "T2", name |-> "dairy",
      is_active |-> TRUE, deleted_at |-> FALSE]]

NoResp == [op |-> "none"]
NoBearer == [key |-> "none"]
IdleReq == [pc |-> "idle"]

\* --------------------------------------------------------------- jwt utils
Claims(uid, row) ==
  [userId |-> uid, username |-> row.username, role |-> row.role,
   tenantId |-> row.tenant_id, branchId |-> row.branch_id]

generateAccessToken(payload, t, n) ==
  [key |-> "access", payload |-> payload, iat |-> t, exp |-> t + AccessTTL, seq |-> n]

generateRefreshToken(payload, t, n) ==
  [key |-> "refresh", payload |-> payload, iat |-> t, exp |-> t + RefreshTTL, seq |-> n]

\* jwt.verify: signature under the access secret, and exp
verifyAccessToken(tok, t) == tok.key = "access" /\ t < tok.exp

verifyRefreshToken(tok, t) == tok.key = "refresh" /\ t < tok.exp

\* ------------------------------------------- jwt.sign and jwt.verify
\* the five fields of a principal-claims record, in the order of the payload
ClaimKeys == <<"userId", "username", "role", "tenantId", "branchId">>

\* an optional field that the record does not carry
Undefined == "undefined"

\* a serialisation that drops null as it drops undefined
JsonStringify_DropNull(obj) ==
  SelectSeq([i \in 1..Len(ClaimKeys) |-> <<ClaimKeys[i], obj[ClaimKeys[i]]>>],
            LAMBDA kv : kv[2] \notin {Undefined, NoId})

\* JSON.stringify of the payload: the key/value pairs in order; a key whose value
\* is undefined is left out, null (NoId) is kept
JsonStringify(obj) ==
  SelectSeq([i \in 1..Len(ClaimKeys) |-> <<ClaimKeys[i], obj[ClaimKeys[i]]>>],
            LAMBDA kv : kv[2] # Undefined)

\* JSON.parse: a key that is absent reads as undefined
JsonParse(pairs) ==
  [k \in {ClaimKeys[i] : i \in 1..Len(ClaimKeys)} |->
     IF \E i \in 1..Len(pairs) : pairs[i][1] = k
     THEN (pairs[CHOOSE i \in 1..Len(pairs) : pairs[i][1] = k])[2]
     ELSE Undefined]

\* jwt.sign(payload, secret, {expiresIn, issuer, audience, algorithm: 'HS256'}):
\* the serialised claims with iat, exp, iss and aud, and the HMAC of them under
\* the secret
Sign(payload, secret, t, ttl) ==
  LET body == [claims |-> JsonStringify(payload), iat |-> t, exp |-> t + ttl,
               iss |-> "issuer", aud |-> "audience"]
  IN [body |-> body, signature |-> <<secret, body>>]

\* jwt.verify(token, secret, {issuer, audience, algorithms}): the decoded claims,
\* or the error that verifyAccessToken throws
Verify(token, secret, t) ==
  IF /\ token.signature = <<secret, token.body>>
     /\ t < token.body.exp
     /\ token.body.iss = "issuer"
     /\ token.body.aud = "audience"
  THEN JsonParse(token.body.claims)
  ELSE [error |-> "Invalid access token"]

\* generateAccessToken of the claims the call holds
signAccessToken ==
  /\ req[1].pc = "claims"
  /\ accessTokens' = accessTokens \cup {Sign(req[1].payload, "accessSecret", now, AccessTTL)}
  /\ req' = [req EXCEPT ![1].pc = "issued"]
  /\ resp' = NoResp
  /\ UNCHANGED <<now, users, tenants, branches, categories, refresh_tokens, streak,
                 lockSet, revokedAll>>

\* verifyAccessToken of a token, under the access secret
decodeAccessToken(token) ==
  /\ resp' = [op |-> "verifyAccessToken", token |-> token, at |-> now,
              payload |-> req[1].payload,
              result |-> Verify(token, "accessSecret", now)]
  /\ UNCHANGED <<now, users, tenants, branches, categories, refresh_tokens,
                 accessTokens, req, streak, lockSet, revokedAll>>

\* ------------------------------------- JWTUtils.validatePasswordStrength
\* a password is a sequence of one-character strings
MinPasswordLength == 12

UpperCase ==
  {"A", "B", "C", "D", "E", "F", "G", "H", "I", "J", "K", "L", "M", "N", "O", "P", "Q",
   "R", "S", "T", "U", "V", "W", "X", "Y", "Z"}

LowerCase ==
  {"a", "b", "c", "d", "e", "f", "g", "h", "i", "j", "k", "l", "m", "n", "o", "p", "q",
   "r", "s", "t", "u", "v", "w", "x", "y", "z"}

Digits == {"0", "1", "2", "3", "4", "5", "6", "7", "8", "9"}

\* the class [!@#$%^&*()_+\-=\[\]{};':"\\|,.<>\/?]
Special ==
  {"!", "@", "#", "$", "%", "^", "&", "*", "(", ")", "_", "+", "-", "=", "[", "]", "{",
   "}", ";", "'", ":", "\"", "\\", "|", ",", ".", "<", ">", "/", "?"}

\* RegExp.test of a one-character class
Test(class, password) == \E i \in 1..Len(password) : password[i] \in class

\* a validation that reports the first failed rule only
validatePasswordStrength_FirstOnly(password) ==
  LET errors ==
        IF Len(password) < MinPasswordLength
        THEN <<"Password must be at least 12 characters long">>
        ELSE IF ~Test(UpperCase, password)
        THEN <<"Password must contain at least one uppercase letter">>
        ELSE IF ~Test(LowerCase, password)
        THEN <<"Password must contain at least one lowercase letter">>
        ELSE IF ~Test(Digits, password)
        THEN <<"Password must contain at least one number">>
        ELSE IF ~Test(Special, password)
        THEN <<"Password must contain at least one special character">>
        ELSE <<>>
  IN [isValid |-> Len(errors) = 0, errors |-> errors]

\* the five tests in order, each pushing its message
validatePasswordStrength(password) ==
  LET e1 == IF Len(password) < MinPasswordLength
            THEN <<"Password must be at least 12 characters long">> ELSE <<>>
      e2 == IF ~Test(UpperCase, password)
            THEN Append(e1, "Password must contain at least one uppercase letter") ELSE e1
      e3 == IF ~Test(LowerCase, password)
            THEN Append(e2, "Password must contain at least one lowercase letter") ELSE e2
      e4 == IF ~Test(Digits, password)
            THEN Append(e3, "Password must contain at least one number") ELSE e3
      errors == IF ~Test(Special, password)
                THEN Append(e4, "Password must contain at least one special character")
                ELSE e4
  IN [isValid |-> Len(errors) = 0, errors |-> errors]

\* the call, on the password the state holds
validatePassword ==
  /\ resp.op = "password"
  /\ resp' = [op |-> "validatePasswordStrength", password |-> resp.password,
              result |-> validatePasswordStrength(resp.password)]
  /\ UNCHANGED <<now, users, tenants, branches, categories, refresh_tokens,
                 accessTokens, req, streak, lockSet, revokedAll>>

\* ------------------------------------------------------- AuthService.login
findUser(identifier) == {u \in UserIds : users[u].username = identifier}

IsLocked(row, t) == row.locked_until # NULL /\ t < row.locked_until

\* a failure path that starts counting afresh once the lock has run out
FailedLoginState_FreshAfterExpiry(row, snapshot, t) ==
  LET newFailedAttempts == IF row.locked_until # NULL /\ t >= row.locked_until
                           THEN 1 ELSE snapshot.failed_login_attempts + 1
      lockUntil == IF newFailedAttempts >= MaxLoginAttempts THEN t + LockoutTime ELSE NULL
  IN [row EXCEPT !.failed_login_attempts = newFailedAttempts,
                 !.locked_until = lockUntil]

\* the UPDATE of the wrong-password branch: the counter read by the SELECT plus
\* one, and a lock of a full lockout period from now once it reaches the maximum
FailedLoginState(row, snapshot, t) ==
  LET newFailedAttempts == snapshot.failed_login_attempts + 1
      lockUntil == IF newFailedAttempts >= MaxLoginAttempts THEN t + LockoutTime ELSE NULL
  IN [row EXCEPT !.failed_login_attempts = newFailedAttempts,
                 !.locked_until = lockUntil]

\* a reset that forgets the locked_until column
ResetLoginState_KeepLock(row, t) ==
  [row EXCEPT !.failed_login_attempts = 0, !.last_login_at = t]

\* UPDATE users SET failed_login_attempts = 0, locked_until = NULL, last_login_at = NOW()
ResetLoginState(row, t) ==
  [row EXCEPT !.failed_login_attempts = 0, !.locked_until = NULL, !.last_login_at = t]

\* the tenant of a non-super-admin row is inactive, soft-deleted, suspended or
\* cancelled
TenantBlocked(row) ==
  /\ row.role # "super_admin"
  /\ row.tenant_id # NoId
  /\ LET t == tenants[row.tenant_id]
     IN ~t.is_active \/ t.deleted_at \/ t.subscription_status \in {"suspended", "cancelled"}

\* what held when the call started (history, carried to the response)
AtStart(uid, row) ==
  [mustLock |-> (streak[uid] >= MaxLoginAttempts /\ now < lockSet[uid]),
   deleted |-> row.deleted_at,
   tenantBlocked |-> TenantBlocked(row)]

NoStart == [mustLock |-> FALSE, deleted |-> FALSE, tenantBlocked |-> FALSE]

\* logger.security(message, meta) and logger.audit(action, userId, details): one
\* event of type 'security' or 'audit'
Security(message, uid) == [type |-> "security", message |-> message, userId |-> uid]

Audit(action, uid) == [type |-> "audit", message |-> action, userId |-> uid]

\* a branch that throws after logging its event: the catch block adds
\* logger.error('Authentication error:') and rethrows
Thrown(events) ==
  events \o <<[type |-> "error", message |-> "Authentication error:", userId |-> NoId]>>

\* a wrong-password branch that logs nothing
FailedPasswordEvents_Silent(uid) == Thrown(<<>>)

\* what the wrong-password branch logs
FailedPasswordEvents(uid) ==
  Thrown(<<Security("Login attempt with invalid password", uid)>>)

\* what the three throws before bcrypt.compare log
ReadEvents(outcome, uid) ==
  IF outcome = "InvalidCredentials"
  THEN Thrown(<<Security("Login attempt with invalid username", NoId)>>)
  ELSE IF outcome = "AccountInactive"
  THEN Thrown(<<Security("Login attempt with inactive user", uid)>>)
  ELSE Thrown(<<Security("Login attempt with locked user", uid)>>)

LoginResp(uid, status, r, events) ==
  [op |-> "login", user |-> uid, status |-> status,
   before |-> r.snapshot.failed_login_attempts, atStart |-> r.atStart, token |-> NoBearer,
   events |-> events]

\* the columns of the SELECTed row that the rest of the call uses
Snapshot(uid, row) ==
  [failed_login_attempts |-> row.failed_login_attempts, claims |-> Claims(uid, row)]

\* an answer that names the missing principal
LoginReadOutcome_UserNotFound(found, t) ==
  IF found = {} THEN "UserNotFound"
  ELSE LET user == users[CHOOSE u \in found : TRUE]
       IN IF ~user.is_active THEN "AccountInactive"
          ELSE IF IsLocked(user, t) THEN "AccountLocked"
          ELSE "continue"

\* a read that does not look at locked_until
LoginReadOutcome_NoLockCheck(found, t) ==
  IF found = {} THEN "InvalidCredentials"
  ELSE LET user == users[CHOOSE u \in found : TRUE]
       IN IF ~user.is_active THEN "AccountInactive" ELSE "continue"

\* the three throws before bcrypt.compare: 'Invalid credentials' when the
\* SELECT returns no row, 'Account is inactive', 'Account is locked due to
\* failed login attempts'; "continue" when none of them is taken
LoginReadOutcome(found, t) ==
  IF found = {} THEN "InvalidCredentials"
  ELSE LET user == users[CHOOSE u \in found : TRUE]
       IN IF ~user.is_active THEN "AccountInactive"
          ELSE IF IsLocked(user, t) THEN "AccountLocked"
          ELSE "continue"

\* SELECT ... WHERE username = $1, then the inactive and locked checks
LoginRead(s, identifier, valid) ==
  /\ req[s].pc = "idle"
  /\ \A z \in Slots : z < s => req[z].pc # "idle"
  /\ LET found == findUser(identifier)
         outcome == LoginReadOutcome(found, now) IN
     IF found = {}
     THEN /\ resp' = [op |-> "login", user |-> NoId, status |-> outcome,
                      before |-> 0, atStart |-> NoStart, token |-> NoBearer,
                      events |-> ReadEvents(outcome, NoId)]
          /\ UNCHANGED req
     ELSE LET uid == CHOOSE u \in found : TRUE
              user == users[uid]
              r == [pc |-> "update", uid |-> uid, valid |-> valid,
                    snapshot |-> Snapshot(uid, user), atStart |-> AtStart(uid, user)]
          IN /\ valid => Cardinality({x \in refresh_tokens :
                                x.user_id = uid /\ x.token.iat >= 0}) < MaxTokens
             /\ IF outcome # "continue"
                THEN /\ resp' = LoginResp(uid, outcome, r, ReadEvents(outcome, uid))
                     /\ UNCHANGED req
                ELSE /\ req' = [req EXCEPT ![s] = r]
                     /\ resp' = NoResp
  /\ UNCHANGED <<now, users, tenants, branches, categories, refresh_tokens,
                 accessTokens, streak, lockSet, revokedAll>>

\* bcrypt.compare, then the UPDATE of the failure path or of the success path
LoginUpdate(s) ==
  /\ req[s].pc = "update"
  /\ LET r == req[s]
         uid == r.uid
     IN IF ~r.valid
        THEN LET row == FailedLoginState(users[uid], r.snapshot, now) IN
             /\ row.failed_login_attempts <= MaxFailed
             /\ users' = [users EXCEPT ![uid] = row]
             /\ req' = [req EXCEPT ![s] = IdleReq]
             /\ resp' = LoginResp(uid, "InvalidCredentials", r, FailedPasswordEvents(uid))
             /\ streak' = [streak EXCEPT ![uid] = IF @ < MaxFailed THEN @ + 1 ELSE @]
             /\ lockSet' = IF row.locked_until # NULL
                           THEN [lockSet EXCEPT ![uid] = row.locked_until]
                           ELSE lockSet
        ELSE /\ users' = [users EXCEPT ![uid] = ResetLoginState(users[uid], now)]
             /\ req' = [req EXCEPT ![s].pc = "insert"]
             /\ resp' = NoResp
             /\ streak' = [streak EXCEPT ![uid] = 0]
             /\ UNCHANGED lockSet
  /\ UNCHANGED <<now, tenants, branches, categories, refresh_tokens, accessTokens,
                 revokedAll>>

\* token generation and INSERT INTO refresh_tokens (token is UNIQUE)
LoginInsert(s, sameSecond) ==
  /\ req[s].pc = "insert"
  /\ LET r == req[s]
         uid == r.uid
         payload == r.snapshot.claims
         same == {x \in refresh_tokens : x.token.payload = payload /\ x.token.iat = now}
         n == IF sameSecond THEN 0 ELSE Cardinality(same)
         accessToken == generateAccessToken(payload, now, n)
         refreshToken == generateRefreshToken(payload, now, n)
     IN /\ sameSecond => same # {}
        /\ req' = [req EXCEPT ![s] = IdleReq]
        /\ IF \E x \in refresh_tokens : x.token = refreshToken
           THEN /\ resp' = LoginResp(uid, "error", r, Thrown(<<>>))
                /\ UNCHANGED <<refresh_tokens, accessTokens>>
           ELSE /\ refresh_tokens' = refresh_tokens \cup
                     {[token |-> refreshToken, user_id |-> uid,
                       expires_at |-> now + RefreshTTL, is_revoked |-> FALSE]}
                /\ accessTokens' = accessTokens \cup {accessToken}
                /\ resp' = [LoginResp(uid, "ok", r, <<Audit("user_login", uid)>>)
                              EXCEPT !.token = refreshToken]
  /\ UNCHANGED <<now, users, tenants, branches, categories, streak, lockSet,
                 revokedAll>>

\* the INSERT INTO refresh_tokens is rejected by the store (connection lost,
\* statement timeout) or the process stops before it: the call ends with the
\* error, and the success-path UPDATE, committed on its own, stays
LoginInsertFails(s) ==
  /\ req[s].pc = "insert"
  /\ req' = [req EXCEPT ![s] = IdleReq]
  /\ resp' = LoginResp(req[s].uid, "error", req[s], Thrown(<<>>))
  /\ UNCHANGED <<now, users, tenants, branches, categories, refresh_tokens,
                 accessTokens, streak, lockSet, revokedAll>>

Tick ==
  /\ now < MaxTime
  /\ now' = now + 1
  /\ resp' = NoResp
  /\ UNCHANGED <<users, tenants, branches, categories, refresh_tokens, accessTokens,
                 req, streak, lockSet, revokedAll>>

\* ------------------------------------------------ AuthService.refreshToken
TokenRows(tok) == {x \in refresh_tokens : x.token = tok}

\* the checks without the is_revoked test
RefreshOutcome_NoRevokedCheck(tok) ==
  IF ~verifyRefreshToken(tok, now) THEN "Invalid refresh token"
  ELSE IF TokenRows(tok) = {} THEN "Invalid refresh token"
  ELSE LET tokenRecord == CHOOSE x \in TokenRows(tok) : TRUE IN
       IF now > tokenRecord.expires_at THEN "Refresh token expired"
       ELSE IF tokenRecord.user_id \notin UserIds \/ ~users[tokenRecord.user_id].is_active
            THEN "User not found or inactive"
       ELSE "ok"

\* the checks without the owner lookup
RefreshOutcome_NoUserCheck(tok) ==
  IF ~verifyRefreshToken(tok, now) THEN "Invalid refresh token"
  ELSE IF TokenRows(tok) = {} \/ (CHOOSE x \in TokenRows(tok) : TRUE).is_revoked
       THEN "Invalid refresh token"
  ELSE LET tokenRecord == CHOOSE x \in TokenRows(tok) : TRUE IN
       IF now > tokenRecord.expires_at THEN "Refresh token expired"
       ELSE "ok"

\* the checks in the order the code makes them; the first that fails names the error
RefreshOutcome(tok) ==
  IF ~verifyRefreshToken(tok, now) THEN "Invalid refresh token"
  ELSE IF TokenRows(tok) = {} \/ (CHOOSE x \in TokenRows(tok) : TRUE).is_revoked
       THEN "Invalid refresh token"
  ELSE LET tokenRecord == CHOOSE x \in TokenRows(tok) : TRUE IN
       IF now > tokenRecord.expires_at THEN "Refresh token expired"
       ELSE IF tokenRecord.user_id \notin UserIds \/ ~users[tokenRecord.user_id].is_active
            THEN "User not found or inactive"
       ELSE "ok"

\* a token no key of the server signed
ForgedToken ==
  [key |-> "forged", payload |-> Claims("u1", SeedUsers["u1"]), iat |-> 0,
   exp |-> RefreshTTL, seq |-> 0]

\* what a client can put in a request: every token ever handed out, or a forgery
Presentable == {x.token : x \in refresh_tokens} \cup accessTokens \cup {ForgedToken}

\* a refresh that rotates: the presented record is revoked once it has been used
refreshToken_Rotate(tok) ==
  /\ LET outcome == RefreshOutcome(tok) IN
     IF outcome = "ok"
     THEN LET uid == (CHOOSE x \in TokenRows(tok) : TRUE).user_id
              newAccessToken == generateAccessToken(Claims(uid, users[uid]), now, 0)
          IN /\ accessTokens' = accessTokens \cup {newAccessToken}
             /\ refresh_tokens' = {IF x.token = tok THEN [x EXCEPT !.is_revoked = TRUE]
                                    ELSE x : x \in refresh_tokens}
             /\ resp' = [op |-> "refresh", status |-> "ok", user |-> uid, token |-> tok]
     ELSE /\ resp' = [op |-> "refresh", status |-> outcome, user |-> NoId, token |-> tok]
          /\ UNCHANGED <<accessTokens, refresh_tokens>>
  /\ UNCHANGED <<now, users, tenants, branches, categories, req,
                 streak, lockSet, revokedAll>>

refreshToken(tok) ==
  /\ LET outcome == RefreshOutcome(tok) IN
     IF outcome = "ok"
     THEN LET uid == (CHOOSE x \in TokenRows(tok) : TRUE).user_id
              newAccessToken == generateAccessToken(Claims(uid, users[uid]), now, 0)
          IN /\ accessTokens' = accessTokens \cup {newAccessToken}
             /\ resp' = [op |-> "refresh", status |-> "ok", user |-> uid, token |-> tok]
     ELSE /\ resp' = [op |-> "refresh", status |-> outcome, user |-> NoId, token |-> tok]
          /\ UNCHANGED accessTokens
  /\ UNCHANGED <<now, users, tenants, branches, categories, refresh_tokens, req,
                 streak, lockSet, revokedAll>>

\* a gate that trusts the token: signature and expiry only
AuthOutcome_TokenOnly(bearer) ==
  IF bearer = NoBearer THEN "Access token required"
  ELSE IF ~verifyAccessToken(bearer, now) THEN "Invalid or expired token"
  ELSE "ok"

\* a gate that also wants a live session: a principal all of whose refresh tokens
\* are revoked is turned away
AuthOutcome_SessionBound(bearer) ==
  IF bearer = NoBearer THEN "Access token required"
  ELSE IF ~verifyAccessToken(bearer, now) THEN "Invalid or expired token"
  ELSE LET uid == bearer.payload.userId
           user == users[uid]
       IN IF user.deleted_at THEN "User not found"
          ELSE IF ~user.is_active THEN "Account is inactive"
          ELSE IF /\ \E x \in refresh_tokens : x.user_id = uid
                  /\ \A x \in refresh_tokens : x.user_id = uid => x.is_revoked
               THEN "Session revoked"
          ELSE IF user.role # "super_admin"
               THEN IF user.tenant_id = NoId THEN "No tenant associated with user"
                    ELSE IF ~tenants[user.tenant_id].is_active
                         THEN "Tenant account is inactive"
                    ELSE IF tenants[user.tenant_id].subscription_status
                              \in {"cancelled", "suspended"}
                         THEN "Tenant subscription is not active"
                    ELSE "ok"
               ELSE "ok"

\* ------------------------------------------- AuthMiddleware.authenticate
AuthOutcome(bearer) ==
  IF bearer = NoBearer THEN "Access token required"
  ELSE IF ~verifyAccessToken(bearer, now) THEN "Invalid or expired token"
  ELSE LET uid == bearer.payload.userId
           user == users[uid]
       IN IF user.deleted_at THEN "User not found"
          ELSE IF ~user.is_active THEN "Account is inactive"
          ELSE IF user.role # "super_admin"
               THEN IF user.tenant_id = NoId THEN "No tenant associated with user"
                    ELSE IF ~tenants[user.tenant_id].is_active
                         THEN "Tenant account is inactive"
                    ELSE IF tenants[user.tenant_id].subscription_status
                              \in {"cancelled", "suspended"}
                         THEN "Tenant subscription is not active"
                    ELSE "ok"
               ELSE "ok"

\* req.user: built from the row just read, not from the token's claims
AuthContext(bearer) ==
  LET uid == bearer.payload.userId
  IN [id |-> uid, role |-> users[uid].role, tenantId |-> users[uid].tenant_id,
      branchId |-> users[uid].branch_id]

\* req.user after authenticate; nothing when the gate refused
Caller(bearer) ==
  IF AuthOutcome(bearer) = "ok" THEN AuthContext(bearer)
  ELSE [id |-> NoId, role |-> NoId, tenantId |-> NoId, branchId |-> NoId]

\* GET /api/v1/auth/me: the gate alone
authenticate(bearer) ==
  /\ resp' = [op |-> "authenticate", status |-> AuthOutcome(bearer),
              user |-> IF bearer.key = "access" THEN bearer.payload.userId ELSE NoId,
              token |-> bearer, ctx |-> Caller(bearer)]
  /\ UNCHANGED <<now, users, tenants, branches, categories, refresh_tokens,
                 accessTokens, req, streak, lockSet, revokedAll>>

\* an unexpired access token of the actor, as a logged-in admin client holds it
SessionOf(actor) == generateAccessToken(Claims(actor, users[actor]), now, 0)

authorize(allowedRoles, ctx) == ctx.role \in allowedRoles

\* a revoke-all that deletes the records
RevokeAll_Delete(uid) == {x \in refresh_tokens : x.user_id # uid}

\* a revoke-all that was left out
RevokeAll_Nothing(uid) == refresh_tokens

\* UPDATE refresh_tokens SET is_revoked = true WHERE user_id = $1
RevokeAll(uid) ==
  {IF x.user_id = uid THEN [x EXCEPT !.is_revoked = TRUE] ELSE x : x \in refresh_tokens}

TokensOf(uid) == {x.token : x \in {y \in refresh_tokens : y.user_id = uid}}

\* ------------------------------------------- AuthService.changePassword
\* POST /api/v1/auth/change-password: authenticate, then the service in one
\* transaction
changePassword(bearer, currentValid, strong) ==
  /\ AuthOutcome(bearer) = "ok"
  /\ LET uid == AuthContext(bearer).id IN
     IF currentValid /\ strong
     THEN /\ refresh_tokens' = RevokeAll(uid)
          /\ revokedAll' = revokedAll \cup TokensOf(uid)
          /\ resp' = [op |-> "changePassword", status |-> "ok", user |-> uid]
     ELSE /\ resp' = [op |-> "changePassword", status |-> "error", user |-> uid]
          /\ UNCHANGED <<refresh_tokens, revokedAll>>
  /\ UNCHANGED <<now, users, tenants, branches, categories, accessTokens, req,
                 streak, lockSet>>

\* ----------------------------------------------- POST /api/v1/auth/logout
\* a revoke that does not look at the owner
LogoutRevoke_AnyOwner(tok, uid) ==
  {IF x.token = tok THEN [x EXCEPT !.is_revoked = TRUE] ELSE x : x \in refresh_tokens}

\* a revoke that flips the flag
LogoutRevoke_Toggle(tok, uid) ==
  {IF x.token = tok /\ x.user_id = uid THEN [x EXCEPT !.is_revoked = ~@] ELSE x :
     x \in refresh_tokens}

\* UPDATE refresh_tokens SET is_revoked = true WHERE token = $1 AND user_id = $2
LogoutRevoke(tok, uid) ==
  {IF x.token = tok /\ x.user_id = uid THEN [x EXCEPT !.is_revoked = TRUE] ELSE x :
     x \in refresh_tokens}

\* authenticate, then the handler: the token of the body, if there is one, is revoked
\* for the caller; the answer is success either way
logout(bearer, bodyToken) ==
  /\ IF AuthOutcome(bearer) # "ok"
     THEN /\ resp' = [op |-> "logout", status |-> AuthOutcome(bearer), user |-> NoId,
                      token |-> bodyToken, already |-> FALSE]
          /\ UNCHANGED refresh_tokens
     ELSE LET uid == AuthContext(bearer).id IN
          /\ refresh_tokens' = IF bodyToken # NoBearer THEN LogoutRevoke(bodyToken, uid)
                               ELSE refresh_tokens
          /\ resp' = [op |-> "logout", status |-> "ok", user |-> uid, token |-> bodyToken,
                      already |-> \E x \in refresh_tokens :
                                     x.token = bodyToken /\ x.is_revoked]
  /\ UNCHANGED <<now, users, tenants, branches, categories, accessTokens, req, streak,
                 lockSet, revokedAll>>

\* ----------------------------------------- AuthService.changeCredentials
\* POST /api/v1/auth/change-credentials: authenticate, then the service in one
\* transaction: current password, username uniqueness, password strength, the
\* UPDATE of username and password, the revoke-all
changeCredentials(bearer, currentValid, newUsername, strong) ==
  /\ AuthOutcome(bearer) = "ok"
  /\ LET uid == AuthContext(bearer).id IN
     IF /\ currentValid
        /\ ~\E u \in UserIds : u # uid /\ users[u].username = newUsername
        /\ strong
     THEN /\ users' = [users EXCEPT ![uid].username = newUsername]
          /\ refresh_tokens' = RevokeAll(uid)
          /\ revokedAll' = revokedAll \cup TokensOf(uid)
          /\ resp' = [op |-> "changeCredentials", status |-> "ok", user |-> uid]
     ELSE /\ resp' = [op |-> "changeCredentials", status |-> "error", user |-> uid]
          /\ UNCHANGED <<users, refresh_tokens, revokedAll>>
  /\ UNCHANGED <<now, tenants, branches, categories, accessTokens, req, streak,
                 lockSet>>

\* ------------------------------ the credential changes as transactions
\* db.transaction with the statements spelled out, on rows that carry the
\* password and must_change_password columns; failAt names the statement at
\* which the store fails ("none": it does not)
FailPoints == {"none", "select", "update", "revoke", "commit"}

bcryptHash(password) == <<"bcrypt", password>>

\* a transaction whose writes stay when the callback throws
Rollback_Keep(before, after) == after

\* catch: ROLLBACK, then the error is thrown on
Rollback(before, after) == before

\* what changePassword throws, "ok" when it commits
ChangePasswordOutcome(userId, currentValid, newPassword, failAt) ==
  IF failAt = "select" THEN "store error"
  ELSE IF userId \notin DOMAIN users THEN "User not found"
  ELSE IF ~currentValid THEN "Current password is incorrect"
  ELSE IF ~validatePasswordStrength(newPassword).isValid THEN "Password validation failed"
  ELSE IF failAt \in {"update", "revoke", "commit"} THEN "store error"
  ELSE "ok"

\* what changeCredentials throws, "ok" when it commits
ChangeCredentialsOutcome(userId, currentValid, newUsername, newPassword, failAt) ==
  IF failAt = "select" THEN "store error"
  ELSE IF userId \notin DOMAIN users THEN "User not found"
  ELSE IF ~currentValid THEN "Current password is incorrect"
  ELSE IF \E u \in DOMAIN users : u # userId /\ users[u].username = newUsername
  THEN "Username already exists"
  ELSE IF ~validatePasswordStrength(newPassword).isValid THEN "Password validation failed"
  ELSE IF failAt \in {"update", "revoke", "commit"} THEN "store error"
  ELSE "ok"

\* the tables as the statements that ran before the throw, or all of them, have
\* written them: the UPDATE of the row, then the revoke-all
Written(userId, row, outcome, failAt) ==
  IF outcome = "ok" \/ (outcome = "store error" /\ failAt \in {"revoke", "commit"})
  THEN [users |-> [users EXCEPT ![userId] = row],
        refresh_tokens |-> IF outcome = "ok" \/ failAt = "commit"
                           THEN RevokeAll(userId) ELSE refresh_tokens]
  ELSE [users |-> users, refresh_tokens |-> refresh_tokens]

\* AuthService.changePassword
changePasswordTx(userId, currentValid, newPassword, failAt) ==
  LET outcome == ChangePasswordOutcome(userId, currentValid, newPassword, failAt)
      row == IF userId \in DOMAIN users
             THEN [users[userId] EXCEPT !.password = bcryptHash(newPassword),
                                        !.must_change_password = FALSE]
             ELSE NoResp
      before == [users |-> users, refresh_tokens |-> refresh_tokens]
      after == Written(userId, row, outcome, failAt)
      store == IF outcome = "ok" THEN after ELSE Rollback(before, after)
  IN /\ users' = store.users
     /\ refresh_tokens' = store.refresh_tokens
     /\ revokedAll' = IF outcome = "ok" THEN revokedAll \cup TokensOf(userId) ELSE revokedAll
     /\ resp' = [op |-> "changePassword", status |-> IF outcome = "ok" THEN "ok" ELSE "error",
                 message |-> outcome, user |-> userId, failAt |-> failAt]
     /\ UNCHANGED <<now, tenants, branches, categories, accessTokens, req, streak, lockSet>>

\* AuthService.changeCredentials
changeCredentialsTx(userId, currentValid, newUsername, newPassword, failAt) ==
  LET outcome == ChangeCredentialsOutcome(userId, currentValid, newUsername, newPassword,
                                          failAt)
      row == IF userId \in DOMAIN users
             THEN [users[userId] EXCEPT !.username = newUsername,
                                        !.password = bcryptHash(newPassword),
                                        !.must_change_password = FALSE]
             ELSE NoResp
      before == [users |-> users, refresh_tokens |-> refresh_tokens]
      after == Written(userId, row, outcome, failAt)
      store == IF outcome = "ok" THEN after ELSE Rollback(before, after)
  IN /\ users' = store.users
     /\ refresh_tokens' = store.refresh_tokens
     /\ revokedAll' = IF outcome = "ok" THEN revokedAll \cup TokensOf(userId) ELSE revokedAll
     /\ resp' = [op |-> "changeCredentials", status |-> IF outcome = "ok" THEN "ok" ELSE "error",
                 message |-> outcome, user |-> userId, failAt |-> failAt]
     /\ UNCHANGED <<now, tenants, branches, categories, accessTokens, req, streak, lockSet>>

\* ------------------------------------------------------------ UserService
\* the dynamically built UPDATE of the first version: every field the body
\* carries is written
ApplyUpdate1(row, updateData) ==
  [row EXCEPT
     !.is_active = IF "isActive" \in DOMAIN updateData THEN updateData.isActive ELSE @,
     !.role = IF "role" \in DOMAIN updateData THEN updateData.role ELSE @,
     !.tenant_id = IF "tenantId" \in DOMAIN updateData THEN updateData.tenantId ELSE @,
     !.branch_id = IF "branchId" \in DOMAIN updateData THEN updateData.branchId ELSE @]

\* first version, the one PUT /api/v1/admin/users/:userId calls: no check of the
\* caller's tenant, none of deleted_at
updateUser1(actor, userId, updateData) ==
  /\ AuthOutcome(SessionOf(actor)) = "ok"
  /\ authorize({"super_admin", "tenant_admin"}, AuthContext(SessionOf(actor)))
  /\ IF DOMAIN updateData = {}
     THEN /\ resp' = [op |-> "updateUser", status |-> "error", user |-> actor,
                      target |-> userId]
          /\ UNCHANGED users
     ELSE /\ users' = [users EXCEPT ![userId] = ApplyUpdate1(users[userId], updateData)]
          /\ resp' = [op |-> "updateUser", status |-> "ok", user |-> actor,
                      target |-> userId]
  /\ UNCHANGED <<now, tenants, branches, categories, refresh_tokens, accessTokens,
                 req, streak, lockSet, revokedAll>>

\* the UPDATE of the second version: role is written for a super admin only,
\* tenant_id never
ApplyUpdate(row, updateData, updatingUserRole) ==
  [row EXCEPT
     !.is_active = IF "isActive" \in DOMAIN updateData THEN updateData.isActive ELSE @,
     !.role = IF "role" \in DOMAIN updateData /\ updatingUserRole = "super_admin"
              THEN updateData.role ELSE @,
     !.branch_id = IF "branchId" \in DOMAIN updateData THEN updateData.branchId ELSE @]

\* second version of updateUser: the caller's role and tenant are checked, deleted
\* rows are not found, a new branch must be one of the target's tenant
updateUser(actor, userId, updateData) ==
  /\ AuthOutcome(SessionOf(actor)) = "ok"
  /\ LET ctx == AuthContext(SessionOf(actor))
         user == users[userId]
         denied ==
           \/ user.deleted_at
           \/ ctx.role \notin {"super_admin", "tenant_admin"}
           \/ /\ ctx.role = "tenant_admin"
              /\ \/ user.tenant_id # ctx.tenantId
                 \/ user.role = "tenant_admin" /\ userId # actor
         badBranch ==
           /\ "branchId" \in DOMAIN updateData
           /\ updateData.branchId # NoId
           /\ ~(/\ branches[updateData.branchId].tenant_id = user.tenant_id
                /\ branches[updateData.branchId].is_active
                /\ ~branches[updateData.branchId].deleted_at)
         updateFields ==
           {f \in DOMAIN updateData :
              f \in {"isActive", "branchId"} \/ (f = "role" /\ ctx.role = "super_admin")}
     IN IF denied \/ badBranch \/ updateFields = {}
        THEN /\ resp' = [op |-> "updateUser", status |-> "error", user |-> actor,
                         target |-> userId]
             /\ UNCHANGED users
        ELSE /\ users' = [users EXCEPT ![userId] = ApplyUpdate(@, updateData, ctx.role)]
             /\ resp' = [op |-> "updateUser", status |-> "ok", user |-> actor,
                         target |-> userId]
  /\ UNCHANGED <<now, tenants, branches, categories, refresh_tokens, accessTokens,
                 req, streak, lockSet, revokedAll>>

\* first version of deleteUser, the one DELETE /api/v1/admin/users/:userId calls:
\* the row is soft-deleted and its tokens revoked, whoever the caller and the
\* target are
deleteUser1(actor, userId) ==
  /\ AuthOutcome(SessionOf(actor)) = "ok"
  /\ authorize({"super_admin", "tenant_admin"}, AuthContext(SessionOf(actor)))
  /\ users' = [users EXCEPT ![userId].deleted_at = TRUE, ![userId].is_active = FALSE]
  /\ refresh_tokens' = RevokeAll(userId)
  /\ revokedAll' = revokedAll \cup TokensOf(userId)
  /\ resp' = [op |-> "deleteUser", status |-> "ok", user |-> actor, target |-> userId]
  /\ UNCHANGED <<now, tenants, branches, categories, accessTokens, req, streak,
                 lockSet>>

\* second version: the caller's role and tenant are checked, deleted rows are not
\* found
deleteUser(actor, userId) ==
  /\ AuthOutcome(SessionOf(actor)) = "ok"
  /\ LET ctx == AuthContext(SessionOf(actor))
         userData == users[userId]
         denied ==
           \/ userData.deleted_at
           \/ ctx.role \notin {"super_admin", "tenant_admin"}
           \/ /\ ctx.role = "tenant_admin"
              /\ \/ userData.tenant_id # ctx.tenantId
                 \/ userData.role = "tenant_admin" /\ userId # actor
           \/ userId = actor
     IN IF denied
        THEN /\ resp' = [op |-> "deleteUser", status |-> "error", user |-> actor,
                         target |-> userId]
             /\ UNCHANGED <<users, refresh_tokens, revokedAll>>
        ELSE /\ users' = [users EXCEPT ![userId].deleted_at = TRUE,
                                       ![userId].is_active = FALSE]
             /\ refresh_tokens' = RevokeAll(userId)
             /\ revokedAll' = revokedAll \cup TokensOf(userId)
             /\ resp' = [op |-> "deleteUser", status |-> "ok", user |-> actor,
                         target |-> userId]
  /\ UNCHANGED <<now, tenants, branches, categories, accessTokens, req, streak,
                 lockSet>>

\* first version, the one POST /api/v1/admin/users/:userId/reset-password calls:
\* the password UPDATE and the revoke-all, with no look at the target row
resetUserPassword1(actor, userId) ==
  /\ AuthOutcome(SessionOf(actor)) = "ok"
  /\ authorize({"super_admin", "tenant_admin"}, AuthContext(SessionOf(actor)))
  /\ refresh_tokens' = RevokeAll(userId)
  /\ revokedAll' = revokedAll \cup TokensOf(userId)
  /\ resp' = [op |-> "resetPassword", status |-> "ok", user |-> actor, target |-> userId]
  /\ UNCHANGED <<now, users, tenants, branches, categories, accessTokens, req, streak,
                 lockSet>>

\* second version: the caller's role and tenant are checked, deleted rows are not
\* found
resetUserPassword(actor, userId) ==
  /\ AuthOutcome(SessionOf(actor)) = "ok"
  /\ LET ctx == AuthContext(SessionOf(actor))
         userData == users[userId]
         denied ==
           \/ userData.deleted_at
           \/ ctx.role \notin {"super_admin", "tenant_admin"}
           \/ /\ ctx.role = "tenant_admin"
              /\ \/ userData.tenant_id # ctx.tenantId
                 \/ userData.role = "tenant_admin" /\ userId # actor
     IN IF denied
        THEN /\ resp' = [op |-> "resetPassword", status |-> "error", user |-> actor,
                         target |-> userId]
             /\ UNCHANGED <<refresh_tokens, revokedAll>>
        ELSE /\ refresh_tokens' = RevokeAll(userId)
             /\ revokedAll' = revokedAll \cup TokensOf(userId)
             /\ resp' = [op |-> "resetPassword", status |-> "ok", user |-> actor,
                         target |-> userId]
  /\ UNCHANGED <<now, users, tenants, branches, categories, accessTokens, req, streak,
                 lockSet>>

\* ------------------------------------------------------ the HTTP pipeline
\* authenticate, then authorize(allowedRoles): 401, 403, or on to the handler
Gate(bearer, allowedRoles) ==
  IF AuthOutcome(bearer) # "ok" THEN 401
  ELSE IF ~authorize(allowedRoles, AuthContext(bearer)) THEN 403
  ELSE 200

\* the answer of a route: its status code, the tenant and branch the request
\* declared, and the tenant and branch of the row it returned or wrote
ApiResp(op, bearer, code, tenantId, branchId, rowTenant, rowBranch) ==
  [op |-> op, code |-> code, auth |-> AuthOutcome(bearer), caller |-> Caller(bearer),
   tenantId |-> tenantId, branchId |-> branchId,
   rowTenant |-> rowTenant, rowBranch |-> rowBranch]

ApiOps ==
  {"putTenant", "deleteTenant", "postTenants", "postAdminTenants", "getProducts",
   "putCategory", "deleteCategory", "getInventory", "getBranch", "deleteBranch"}

\* ---------------------------------------------------------- TenantService
ApplyTenantUpdate(row, updateData) ==
  [row EXCEPT
     !.is_active = IF "isActive" \in DOMAIN updateData THEN updateData.isActive ELSE @,
     !.subscription_status = IF "subscriptionStatus" \in DOMAIN updateData
                             THEN updateData.subscriptionStatus ELSE @]

TenantUpdates ==
  {[isActive |-> b] : b \in BOOLEAN} \cup
  {[subscriptionStatus |-> x] : x \in SubscriptionStatuses}

\* PUT /api/v1/admin/tenants/:tenantId
updateTenant(bearer, tenantId, updateData) ==
  /\ LET g == Gate(bearer, {"super_admin"}) IN
     IF g # 200
     THEN /\ resp' = ApiResp("putTenant", bearer, g, tenantId, NoId, NoId, NoId)
          /\ UNCHANGED tenants
     ELSE IF tenantId \notin DOMAIN tenants \/ DOMAIN updateData = {}
     THEN /\ resp' = ApiResp("putTenant", bearer, 400, tenantId, NoId, NoId, NoId)
          /\ UNCHANGED tenants
     ELSE /\ tenants' = [tenants EXCEPT ![tenantId] = ApplyTenantUpdate(@, updateData)]
          /\ resp' = ApiResp("putTenant", bearer, 200, tenantId, NoId, tenantId, NoId)
  /\ UNCHANGED <<now, users, branches, categories, refresh_tokens, accessTokens, req,
                 streak, lockSet, revokedAll>>

\* DELETE /api/v1/admin/tenants/:tenantId: the tenant, its users and its branches
\* are soft-deleted
deleteTenant(bearer, tenantId) ==
  /\ LET g == Gate(bearer, {"super_admin"}) IN
     IF g # 200
     THEN /\ resp' = ApiResp("deleteTenant", bearer, g, tenantId, NoId, NoId, NoId)
          /\ UNCHANGED <<tenants, users, branches>>
     ELSE IF tenantId \notin DOMAIN tenants
     THEN /\ resp' = ApiResp("deleteTenant", bearer, 400, tenantId, NoId, NoId, NoId)
          /\ UNCHANGED <<tenants, users, branches>>
     ELSE /\ tenants' = [tenants EXCEPT ![tenantId].deleted_at = TRUE,
                                         ![tenantId].is_active = FALSE]
          /\ users' = [u \in UserIds |->
                         IF users[u].tenant_id = tenantId
                         THEN [users[u] EXCEPT !.deleted_at = TRUE, !.is_active = FALSE]
                         ELSE users[u]]
          /\ branches' = [b \in BranchIds |->
                            IF branches[b].tenant_id = tenantId
                            THEN [branches[b] EXCEPT !.deleted_at = TRUE, !.is_active = FALSE]
                            ELSE branches[b]]
          /\ resp' = ApiResp("deleteTenant", bearer, 200, tenantId, NoId, tenantId, NoId)
  /\ UNCHANGED <<now, categories, refresh_tokens, accessTokens, req, streak, lockSet,
                 revokedAll>>

\* ids a created tenant can get
NewTenantIds == {"T3"}

\* INSERT INTO tenants; slug is UNIQUE
InsertTenant(op, bearer, slug) ==
  IF slug = NoId
  THEN /\ resp' = ApiResp(op, bearer, 400, NoId, NoId, NoId, NoId)
       /\ UNCHANGED tenants
  ELSE IF \E t \in DOMAIN tenants : tenants[t].slug = slug
  THEN /\ resp' = ApiResp(op, bearer, 409, NoId, NoId, NoId, NoId)
       /\ UNCHANGED tenants
  ELSE /\ NewTenantIds \ DOMAIN tenants # {}
       /\ LET id == CHOOSE t \in NewTenantIds \ DOMAIN tenants : TRUE
          IN /\ tenants' = [t \in DOMAIN tenants \cup {id} |->
                              IF t = id THEN TenantRow(slug) ELSE tenants[t]]
             /\ resp' = ApiResp(op, bearer, 201, NoId, NoId, id, NoId)

\* POST /api/v1/tenants: no middleware in front of the handler
postTenants(bearer, slug) ==
  /\ InsertTenant("postTenants", bearer, slug)
  /\ UNCHANGED <<now, users, branches, categories, refresh_tokens, accessTokens, req,
                 streak, lockSet, revokedAll>>

\* POST /api/v1/admin/tenants
postAdminTenants(bearer, slug) ==
  /\ LET g == Gate(bearer, {"super_admin"}) IN
     IF g # 200
     THEN /\ resp' = ApiResp("postAdminTenants", bearer, g, NoId, NoId, NoId, NoId)
          /\ UNCHANGED tenants
     ELSE InsertTenant("postAdminTenants", bearer, slug)
  /\ UNCHANGED <<now, users, branches, categories, refresh_tokens, accessTokens, req,
                 streak, lockSet, revokedAll>>

\* ------------------------------------------------- waste-management routes
\* GET /products?tenantId=
getProducts(bearer, queryTenantId) ==
  /\ LET g == Gate(bearer, Roles) IN
     IF g # 200
     THEN resp' = ApiResp("getProducts", bearer, g, queryTenantId, NoId, NoId, NoId)
     ELSE LET tenantId == IF Caller(bearer).role # "super_admin"
                          THEN Caller(bearer).tenantId ELSE queryTenantId
          IN resp' = ApiResp("getProducts", bearer, 200, queryTenantId, NoId, tenantId, NoId)
  /\ UNCHANGED <<now, users, tenants, branches, categories, refresh_tokens,
                 accessTokens, req, streak, lockSet, revokedAll>>

\* PUT /categories/:id and WasteManagementService.updateCategory
putCategory(bearer, id, name) ==
  /\ LET g == Gate(bearer, {"super_admin", "tenant_admin"}) IN
     IF g # 200
     THEN /\ resp' = ApiResp("putCategory", bearer, g, NoId, NoId, NoId, NoId)
          /\ UNCHANGED categories
     ELSE /\ categories' = [categories EXCEPT ![id].name = name]
          /\ resp' = ApiResp("putCategory", bearer, 200, NoId, NoId,
                             categories[id].tenant_id, NoId)
  /\ UNCHANGED <<now, users, tenants, branches, refresh_tokens, accessTokens, req,
                 streak, lockSet, revokedAll>>

\* the id the next INSERT INTO categories is given
NewCategoryIds == {"c3"}

\* POST /categories and WasteManagementService.createCategory: a tenant admin's
\* body gets the caller's tenant id, a super admin's body is taken as sent;
\* UNIQUE(tenant_id, name) refuses a second row of the name in a tenant, and two
\* rows of no tenant never collide
postCategory(bearer, bodyTenantId, name) ==
  /\ LET g == Gate(bearer, {"super_admin", "tenant_admin"}) IN
     IF g # 200
     THEN /\ resp' = ApiResp("postCategory", bearer, g, bodyTenantId, NoId, NoId, NoId)
          /\ UNCHANGED categories
     ELSE LET tenantId == IF Caller(bearer).role = "tenant_admin"
                          THEN Caller(bearer).tenantId ELSE bodyTenantId
          IN IF \E c \in DOMAIN categories :
                  /\ tenantId # NoId
                  /\ categories[c].tenant_id = tenantId
                  /\ categories[c].name = name
             THEN /\ resp' = ApiResp("postCategory", bearer, 500, bodyTenantId, NoId,
                                     NoId, NoId)
                  /\ UNCHANGED categories
             ELSE /\ NewCategoryIds \ DOMAIN categories # {}
                  /\ LET id == CHOOSE c \in NewCategoryIds \ DOMAIN categories : TRUE
                     IN categories' =
                          [c \in DOMAIN categories \cup {id} |->
                             IF c = id
                             THEN [tenant_id |-> tenantId, name |-> name,
                                   is_active |-> TRUE, deleted_at |-> FALSE]
                             ELSE categories[c]]
                  /\ resp' = ApiResp("postCategory", bearer, 201, bodyTenantId, NoId,
                                     tenantId, NoId)
  /\ UNCHANGED <<now, users, tenants, branches, refresh_tokens, accessTokens, req,
                 streak, lockSet, revokedAll>>

\* DELETE /categories/:id and WasteManagementService.deleteCategory
deleteCategory(bearer, id) ==
  /\ LET g == Gate(bearer, {"super_admin", "tenant_admin"}) IN
     IF g # 200
     THEN /\ resp' = ApiResp("deleteCategory", bearer, g, NoId, NoId, NoId, NoId)
          /\ UNCHANGED categories
     ELSE /\ categories' = [categories EXCEPT ![id].deleted_at = TRUE,
                                               ![id].is_active = FALSE]
          /\ resp' = ApiResp("deleteCategory", bearer, 200, NoId, NoId,
                             categories[id].tenant_id, NoId)
  /\ UNCHANGED <<now, users, tenants, branches, refresh_tokens, accessTokens, req,
                 streak, lockSet, revokedAll>>

\* GET /inventory/:branchId; the service reads the stock of the branch it is given
getInventory(bearer, branchId) ==
  /\ LET g == Gate(bearer, Roles) IN
     IF g # 200
     THEN resp' = ApiResp("getInventory", bearer, g, NoId, branchId, NoId, NoId)
     ELSE IF Caller(bearer).role = "branch_admin" /\ Caller(bearer).branchId # branchId
     THEN resp' = ApiResp("getInventory", bearer, 403, NoId, branchId, NoId, NoId)
     ELSE resp' = ApiResp("getInventory", bearer, 200, NoId, branchId,
                          branches[branchId].tenant_id, branchId)
  /\ UNCHANGED <<now, users, tenants, branches, categories, refresh_tokens,
                 accessTokens, req, streak, lockSet, revokedAll>>

\* ---------------------------------------------------------- branch routes
\* BranchService.getBranchById: the rows with deleted_at IS NULL
getBranchById(branchId) == {b \in {branchId} : ~branches[b].deleted_at}

\* GET /api/v1/tenant/branches/:branchId
getBranch(bearer, branchId) ==
  /\ LET g == Gate(bearer, {"tenant_admin", "branch_admin"}) IN
     IF g # 200
     THEN resp' = ApiResp("getBranch", bearer, g, NoId, branchId, NoId, NoId)
     ELSE IF getBranchById(branchId) = {}
     THEN resp' = ApiResp("getBranch", bearer, 404, NoId, branchId, NoId, NoId)
     ELSE IF Caller(bearer).role # "super_admin"
             /\ branches[branchId].tenant_id # Caller(bearer).tenantId
     THEN resp' = ApiResp("getBranch", bearer, 403, NoId, branchId, NoId, NoId)
     ELSE resp' = ApiResp("getBranch", bearer, 200, NoId, branchId,
                          branches[branchId].tenant_id, branchId)
  /\ UNCHANGED <<now, users, tenants, branches, categories, refresh_tokens,
                 accessTokens, req, streak, lockSet, revokedAll>>

\* DELETE /api/v1/tenant/branches/:branchId and BranchService.deleteBranch: the
\* branch and the users of the branch are soft-deleted
deleteBranch(bearer, branchId) ==
  /\ LET g == Gate(bearer, {"tenant_admin"}) IN
     IF g # 200
     THEN /\ resp' = ApiResp("deleteBranch", bearer, g, NoId, branchId, NoId, NoId)
          /\ UNCHANGED <<branches, users>>
     ELSE IF getBranchById(branchId) = {}
     THEN /\ resp' = ApiResp("deleteBranch", bearer, 400, NoId, branchId, NoId, NoId)
          /\ UNCHANGED <<branches, users>>
     ELSE IF branches[branchId].tenant_id # Caller(bearer).tenantId
     THEN /\ resp' = ApiResp("deleteBranch", bearer, 403, NoId, branchId, NoId, NoId)
          /\ UNCHANGED <<branches, users>>
     ELSE /\ branches' = [branches EXCEPT ![branchId].deleted_at = TRUE,
                                           ![branchId].is_active = FALSE]
          /\ users' = [u \in UserIds |->
                         IF users[u].branch_id = branchId
                         THEN [users[u] EXCEPT !.deleted_at = TRUE, !.is_active = FALSE]
                         ELSE users[u]]
          /\ resp' = ApiResp("deleteBranch", bearer, 200, NoId, branchId,
                             branches[branchId].tenant_id, branchId)
  /\ UNCHANGED <<now, tenants, categories, refresh_tokens, accessTokens, req, streak,
                 lockSet, revokedAll>>

\* ------------------------------------------------------- user creation
\* ids a created user can get
NewUserIds == {"u5"}

\* SELECT id FROM users WHERE username = $1
existingUser(username) == {u \in DOMAIN users : users[u].username = username}

\* the request bodies of the create-user calls: username (NoId when the body has
\* none), whether the password passes validatePasswordStrength, role, tenantId
\* and branchId (NoId when the body has none)
UserBodies ==
  [username : {"dave", "bob", NoId}, strong : BOOLEAN, role : Roles,
   tenantId : {NoId, "T1", "T2"}, branchId : {NoId, "B1", "B3"}]

\* INSERT INTO users (..., role, tenant_id, branch_id, is_active, ...)
InsertUser(userData, tenantId) ==
  LET id == CHOOSE u \in NewUserIds \ DOMAIN users : TRUE
  IN [u \in DOMAIN users \cup {id} |->
        IF u = id
        THEN UserRow(userData.username, userData.role, tenantId, userData.branchId)
        ELSE users[u]]

CreatedId == CHOOSE u \in NewUserIds \ DOMAIN users : TRUE

\* createUser, first version: what it throws before the INSERT, "ok" when it
\* reaches the INSERT; the role is not looked at
CreateOutcome1(userData) ==
  IF ~userData.strong THEN "Password validation failed"
  ELSE IF existingUser(userData.username) # {} THEN "Username already exists"
  ELSE IF /\ userData.tenantId # NoId
          /\ ~(userData.tenantId \in DOMAIN tenants /\ tenants[userData.tenantId].is_active)
  THEN "Tenant not found or inactive"
  ELSE IF /\ userData.branchId # NoId
          /\ ~(/\ branches[userData.branchId].tenant_id = userData.tenantId
               /\ branches[userData.branchId].is_active)
  THEN "Branch not found or does not belong to tenant"
  ELSE "ok"

\* the answer of a create-user call: the body's tenantId, role and branchId, and
\* the id of the row written (NoId when none was)
CreateResp(op, actor, status, message, body, id) ==
  [op |-> op, status |-> status, message |-> message, user |-> actor, target |-> id,
   tenantId |-> body.tenantId, role |-> body.role, branchId |-> body.branchId,
   username |-> body.username]

\* a route that forwards the body's tenantId as it came
RouteCheck_NoTenantCheck(ctx, body) ==
  IF body.username = NoId THEN 400 ELSE 200

\* POST /api/v1/admin/users, before the service is called: 400 without username,
\* password or role, 403 for a tenant admin naming another tenant
RouteCheck(ctx, body) ==
  IF body.username = NoId THEN 400
  ELSE IF ctx.role = "tenant_admin" /\ body.tenantId # NoId /\ body.tenantId # ctx.tenantId
  THEN 403
  ELSE 200

\* POST /api/v1/admin/users: the checks of the route, then createUser (first
\* version) with the tenant id forced for a tenant admin
postAdminUsers(actor, body) ==
  /\ AuthOutcome(SessionOf(actor)) = "ok"
  /\ authorize({"super_admin", "tenant_admin"}, AuthContext(SessionOf(actor)))
  /\ NewUserIds \ DOMAIN users # {}
  /\ LET ctx == AuthContext(SessionOf(actor))
         code == RouteCheck(ctx, body)
         userData == [body EXCEPT !.tenantId = IF ctx.role = "tenant_admin"
                                               THEN ctx.tenantId ELSE @]
         outcome == CreateOutcome1(userData)
     IN IF code = 400
        THEN /\ resp' = CreateResp("postAdminUsers", actor, "BadRequest",
                                   "Username, password, and role are required", body, NoId)
             /\ UNCHANGED users
        ELSE IF code = 403
        THEN /\ resp' = CreateResp("postAdminUsers", actor, "Forbidden",
                                   "Cannot create users outside your tenant", body, NoId)
             /\ UNCHANGED users
        ELSE IF outcome # "ok"
        THEN /\ resp' = CreateResp("postAdminUsers", actor, "BadRequest", outcome, body, NoId)
             /\ UNCHANGED users
        ELSE /\ users' = InsertUser(userData, userData.tenantId)
             /\ resp' = CreateResp("postAdminUsers", actor, "ok", outcome, body, CreatedId)
  /\ UNCHANGED <<now, tenants, branches, categories, refresh_tokens, accessTokens, req,
                 streak, lockSet, revokedAll>>

\* POST /api/v1/tenant/branches/:branchId/admins: the branch must be the caller's
\* tenant's, then createUser (first version) with role branch_admin
postBranchAdmins(actor, branchId, username, strong) ==
  /\ AuthOutcome(SessionOf(actor)) = "ok"
  /\ authorize({"tenant_admin"}, AuthContext(SessionOf(actor)))
  /\ NewUserIds \ DOMAIN users # {}
  /\ LET ctx == AuthContext(SessionOf(actor))
         userData == [username |-> username, strong |-> strong, role |-> "branch_admin",
                      tenantId |-> ctx.tenantId, branchId |-> branchId]
         body == [userData EXCEPT !.tenantId = NoId]
         outcome == CreateOutcome1(userData)
     IN IF username = NoId
        THEN /\ resp' = CreateResp("postBranchAdmins", actor, "BadRequest",
                                   "Username and password are required", body, NoId)
             /\ UNCHANGED users
        ELSE IF getBranchById(branchId) = {}
        THEN /\ resp' = CreateResp("postBranchAdmins", actor, "BadRequest",
                                   "Branch not found", body, NoId)
             /\ UNCHANGED users
        ELSE IF branches[branchId].tenant_id # ctx.tenantId
        THEN /\ resp' = CreateResp("postBranchAdmins", actor, "Forbidden",
                                   "Access denied: Branch does not belong to your tenant",
                                   body, NoId)
             /\ UNCHANGED users
        ELSE IF outcome # "ok"
        THEN /\ resp' = CreateResp("postBranchAdmins", actor, "BadRequest", outcome,
                                   body, NoId)
             /\ UNCHANGED users
        ELSE /\ users' = InsertUser(userData, userData.tenantId)
             /\ resp' = CreateResp("postBranchAdmins", actor, "ok", outcome, body, CreatedId)
  /\ UNCHANGED <<now, tenants, branches, categories, refresh_tokens, accessTokens, req,
                 streak, lockSet, revokedAll>>

\* createUser, second version: the tenant the row will get, from the caller's
\* role and tenant
TargetTenant(ctx, userData) ==
  IF ctx.role = "tenant_admin" THEN ctx.tenantId ELSE userData.tenantId

\* createUser, second version: what it throws inside the transaction, "ok" when
\* it reaches the INSERT
CreateOutcome(ctx, userData) ==
  LET targetTenantId == TargetTenant(ctx, userData) IN
  IF ~userData.strong THEN "Password validation failed"
  ELSE IF existingUser(userData.username) # {} THEN "Username already exists"
  ELSE IF ctx.role = "super_admin" /\ targetTenantId = NoId
  THEN "Tenant ID is required when creating users as super admin"
  ELSE IF /\ ctx.role = "tenant_admin"
          /\ userData.tenantId # NoId /\ userData.tenantId # ctx.tenantId
  THEN "Cannot create users for other tenants"
  ELSE IF ctx.role \notin {"super_admin", "tenant_admin"}
  THEN "Insufficient permissions to create users"
  ELSE IF targetTenantId \notin DOMAIN tenants \/ tenants[targetTenantId].deleted_at
  THEN "Tenant not found or inactive"
  ELSE IF ~tenants[targetTenantId].is_active
  THEN "Cannot create users for inactive tenant"
  ELSE IF /\ userData.branchId # NoId
          /\ ~(/\ branches[userData.branchId].tenant_id = targetTenantId
               /\ branches[userData.branchId].is_active
               /\ ~branches[userData.branchId].deleted_at)
  THEN "Branch not found or does not belong to tenant"
  ELSE IF ctx.role = "tenant_admin" /\ userData.role = "tenant_admin"
  THEN "Tenant admins cannot create other tenant admins"
  ELSE "ok"

\* createUser, second version, called with the caller's id, role and tenant
createUser(actor, userData) ==
  /\ AuthOutcome(SessionOf(actor)) = "ok"
  /\ userData.username # NoId
  /\ NewUserIds \ DOMAIN users # {}
  /\ LET ctx == AuthContext(SessionOf(actor))
         outcome == CreateOutcome(ctx, userData)
     IN IF outcome # "ok"
        THEN /\ resp' = CreateResp("createUser", actor, "error", outcome, userData, NoId)
             /\ UNCHANGED users
        ELSE /\ users' = InsertUser(userData, TargetTenant(ctx, userData))
             /\ resp' = CreateResp("createUser", actor, "ok", outcome, userData, CreatedId)
  /\ UNCHANGED <<now, tenants, branches, categories, refresh_tokens, accessTokens, req,
                 streak, lockSet, revokedAll>>

\* ---------------------------------------------------------- specifications
InitStore ==
  /\ now = 0
  /\ users = SeedUsers
  /\ tenants = SeedTenants
  /\ branches = SeedBranches
  /\ categories = SeedCategories
  /\ refresh_tokens = {}
  /\ accessTokens = {}
  /\ req = [s \in Slots |-> IdleReq]
  /\ resp = NoResp
  /\ streak = [u \in UserIds |-> 0]
  /\ lockSet = [u \in UserIds |-> NULL]
  /\ revokedAll = {}

\* concurrent login calls for one principal
LoginNext ==
  \/ Tick
  \/ \E s \in Slots, valid \in BOOLEAN : LoginRead(s, "alice", valid)
  \/ \E s \in Slots : LoginUpdate(s)
  \/ \E s \in Slots, sameSecond \in BOOLEAN : LoginInsert(s, sameSecond)

SpecLogin == InitStore /\ [][LoginNext]_vars

\* logins of one caller with a known and an unknown identifier, right and
\* wrong passwords, while an administrator deactivates and reactivates the
\* known principal
Identifiers == {"alice", "nope"}

LoginFailNext ==
  \/ Tick
  \/ \E identifier \in Identifiers, valid \in BOOLEAN : LoginRead(1, identifier, valid)
  \/ LoginUpdate(1)
  \/ LoginInsert(1, FALSE)
  \/ \E active \in BOOLEAN : updateUser1("u1", "u2", [isActive |-> active])

SpecLoginFail == InitStore /\ [][LoginFailNext]_vars

\* administrators creating users, while a super admin switches tenant T2 off and on
CreateNext ==
  \/ \E actor \in {"u1", "u2"}, body \in UserBodies : postAdminUsers(actor, body)
  \/ \E actor \in {"u2", "u4"}, branchId \in {"B1", "B3"}, username \in {"dave", NoId},
        strong \in BOOLEAN : postBranchAdmins(actor, branchId, username, strong)
  \/ \E actor \in {"u1", "u2", "u3"}, userData \in UserBodies : createUser(actor, userData)
  \/ \E active \in BOOLEAN : updateTenant(SessionOf("u1"), "T2", [isActive |-> active])

SpecCreate == InitStore /\ [][CreateNext]_vars

\* every seeded user logged in a week ago and still holds the refresh token
SeedTokens ==
  {[token |-> generateRefreshToken(Claims(u, SeedUsers[u]), 1 - RefreshTTL, 0),
    user_id |-> u, expires_at |-> 1, is_revoked |-> FALSE] : u \in UserIds}

InitUsers ==
  /\ now = 0
  /\ users = SeedUsers
  /\ tenants = SeedTenants
  /\ branches = SeedBranches
  /\ categories = SeedCategories
  /\ refresh_tokens = SeedTokens
  /\ accessTokens = {}
  /\ req = [s \in Slots |-> IdleReq]
  /\ resp = NoResp
  /\ streak = [u \in UserIds |-> 0]
  /\ lockSet = [u \in UserIds |-> NULL]
  /\ revokedAll = {}

UserUpdates ==
  {[isActive |-> FALSE], [isActive |-> TRUE], [role |-> "branch_admin"],
   [role |-> "tenant_admin"]}

\* the callers (the super admin and the tenant admins of T1 and T2) and the
\* targets (the super admin, the tenant admin of T1 and a branch admin of T1)
Admins == {"u1", "u2", "u4"}
Targets == {"u1", "u2", "u3"}

\* administrators updating, deleting and resetting users, through the routes
\* (first version of the service) and through the second version of the service
UsersNext ==
  \/ \E actor \in Admins, userId \in Targets, updateData \in UserUpdates :
        \/ updateUser1(actor, userId, updateData)
        \/ updateUser(actor, userId, updateData)
  \/ \E actor \in Admins, userId \in Targets :
        \/ deleteUser1(actor, userId)
        \/ deleteUser(actor, userId)
        \/ resetUserPassword1(actor, userId)
        \/ resetUserPassword(actor, userId)

SpecUsers == InitUsers /\ [][UsersNext]_vars

\* the tested passwords: a head of up to MaxPrefix characters followed by up to
\* MaxPad copies of one character, over an upper-case letter, a lower-case
\* letter, a digit, a character of the special class, and two characters of
\* no class; and the two passwords of the scenario
TestChars == {"A", "a", "1", "!", "~", " "}

Heads == UNION {[1..n -> TestChars] : n \in 0..MaxPrefix}

Pad(c, n) == [i \in 1..n |-> c]

Short1 == <<"s", "h", "o", "r", "t", "1", "!">>

ThisIsLong == <<"T", "h", "i", "s", "I", "s", "L", "o", "n", "g", "1", "2", "3", "4", "5", "!">>

Passwords ==
  {h \o Pad(c, n) : h \in Heads, c \in TestChars, n \in 0..MaxPad} \cup {Short1, ThisIsLong}

InitPassword ==
  /\ now = 0
  /\ users = SeedUsers
  /\ tenants = SeedTenants
  /\ branches = SeedBranches
  /\ categories = SeedCategories
  /\ refresh_tokens = {}
  /\ accessTokens = {}
  /\ req = [s \in Slots |-> IdleReq]
  /\ resp \in {[op |-> "password", password |-> p] : p \in Passwords}
  /\ streak = [u \in UserIds |-> 0]
  /\ lockSet = [u \in UserIds |-> NULL]
  /\ revokedAll = {}

PasswordNext == validatePassword

SpecPassword == InitPassword /\ [][PasswordNext]_vars

\* the claims records a token is minted for: tenantId and branchId are a value,
\* null (NoId) or not given
ClaimsInputs ==
  [userId : {"u1", "u2"}, username : {"root", "alice"}, role : Roles,
   tenantId : {"T1", NoId, Undefined}, branchId : {"B1", NoId, Undefined}]

InitJwt ==
  /\ now = 0
  /\ users = SeedUsers
  /\ tenants = SeedTenants
  /\ branches = SeedBranches
  /\ categories = SeedCategories
  /\ refresh_tokens = {}
  /\ accessTokens = {}
  /\ req \in {[s \in Slots |-> IF s = 1 THEN [pc |-> "claims", payload |-> c] ELSE IdleReq] :
                c \in ClaimsInputs}
  /\ resp = NoResp
  /\ streak = [u \in UserIds |-> 0]
  /\ lockSet = [u \in UserIds |-> NULL]
  /\ revokedAll = {}

\* a token is minted, time passes, and the token, or the same claims signed with
\* the refresh secret, is verified
JwtNext ==
  \/ Tick
  \/ signAccessToken
  \/ \E token \in accessTokens \cup
                  {Sign(req[1].payload, "refreshSecret", now, AccessTTL)} :
        decodeAccessToken(token)

SpecJwt == InitJwt /\ [][JwtNext]_vars

\* what the super admin does to alice's row while she holds an access token
RowChanges ==
  {[isActive |-> FALSE], [isActive |-> TRUE], [role |-> "branch_admin", branchId |-> "B2"],
   [tenantId |-> "T2"]}

\* alice logs in and presents her access token while the super admin changes or
\* deletes her row
GateNext ==
  \/ Tick
  \/ LoginRead(1, "alice", TRUE)
  \/ LoginUpdate(1)
  \/ LoginInsert(1, FALSE)
  \/ \E tok \in accessTokens \cup {NoBearer} : authenticate(tok)
  \/ \E updateData \in RowChanges : updateUser1("u1", "u2", updateData)
  \/ deleteUser1("u1", "u2")

SpecGate == InitStore /\ [][GateNext]_vars

\* one caller logging in, with the store failing at the INSERT of some calls
LoginAbortNext ==
  \/ Tick
  \/ \E valid \in BOOLEAN : LoginRead(1, "alice", valid)
  \/ LoginUpdate(1)
  \/ LoginInsert(1, FALSE)
  \/ LoginInsertFails(1)

SpecLoginAbort == InitStore /\ [][LoginAbortNext]_vars

\* the seeded rows with their password hash and must_change_password flag, every
\* user holding a refresh token
InitCredentials ==
  /\ now = 0
  /\ users = [u \in UserIds |->
                SeedUsers[u] @@ [password |-> bcryptHash(<<"s", "e", "e", "d">>),
                                 must_change_password |-> TRUE]]
  /\ tenants = SeedTenants
  /\ branches = SeedBranches
  /\ categories = SeedCategories
  /\ refresh_tokens = SeedTokens
  /\ accessTokens = {}
  /\ req = [s \in Slots |-> IdleReq]
  /\ resp = NoResp
  /\ streak = [u \in UserIds |-> 0]
  /\ lockSet = [u \in UserIds |-> NULL]
  /\ revokedAll = {}

\* alice and bob, and an id with no row, change password and credentials, with
\* right and wrong current passwords, weak and strong new ones, and the store
\* failing at any statement
CredentialsNext ==
  \/ \E userId \in {"u2", "u3", "u9"}, currentValid \in BOOLEAN,
        newPassword \in {Short1, ThisIsLong}, failAt \in FailPoints :
        changePasswordTx(userId, currentValid, newPassword, failAt)
  \/ \E userId \in {"u2", "u3", "u9"}, currentValid \in BOOLEAN,
        newUsername \in {"alice", "alicia", "bob"},
        newPassword \in {Short1, ThisIsLong}, failAt \in FailPoints :
        changeCredentialsTx(userId, currentValid, newUsername, newPassword, failAt)

SpecCredentials == InitCredentials /\ [][CredentialsNext]_vars

\* ------------------------------------------ the two signing keys of config.jwt
\* config.jwt: the access secret and the refresh secret are read from two
\* environment variables
config ==
  [jwt |-> [accessSecret |-> "JWT_ACCESS_SECRET", refreshSecret |-> "JWT_REFRESH_SECRET"]]

\* JWTUtils.generateAccessToken and JWTUtils.generateRefreshToken as jwt.sign
JWTUtils_generateAccessToken(payload, t) ==
  Sign(payload, config.jwt.accessSecret, t, AccessTTL)

JWTUtils_generateRefreshToken(payload, t) ==
  Sign(payload, config.jwt.refreshSecret, t, RefreshTTL)

\* JWTUtils.verifyAccessToken and JWTUtils.verifyRefreshToken as jwt.verify; a
\* failure of jwt.verify is rethrown under the verifier's own message
JWTUtils_verifyAccessToken(token, t) ==
  LET decoded == Verify(token, config.jwt.accessSecret, t)
  IN IF "error" \in DOMAIN decoded THEN [error |-> "Invalid access token"] ELSE decoded

\* a verifier of refresh tokens that checks the signature under the access secret
JWTUtils_verifyRefreshToken_AccessSecret(token, t) ==
  LET decoded == Verify(token, config.jwt.accessSecret, t)
  IN IF "error" \in DOMAIN decoded THEN [error |-> "Invalid refresh token"] ELSE decoded

JWTUtils_verifyRefreshToken(token, t) ==
  LET decoded == Verify(token, config.jwt.refreshSecret, t)
  IN IF "error" \in DOMAIN decoded THEN [error |-> "Invalid refresh token"] ELSE decoded

\* the minting functions
Minters == {"generateAccessToken", "generateRefreshToken"}

\* the verifying functions
Verifiers == {"verifyAccessToken", "verifyRefreshToken"}

\* one of the two minting functions is applied to the claims the call holds; the
\* token is kept with the name of the function that minted it
mintToken(minter) ==
  /\ req[1].pc = "claims"
  /\ LET token == IF minter = "generateAccessToken"
                  THEN JWTUtils_generateAccessToken(req[1].payload, now)
                  ELSE JWTUtils_generateRefreshToken(req[1].payload, now)
     IN accessTokens' = accessTokens \cup {[mintedBy |-> minter, token |-> token]}
  /\ resp' = NoResp
  /\ UNCHANGED <<now, users, tenants, branches, categories, refresh_tokens, req,
                 streak, lockSet, revokedAll>>

\* one of the two verifying functions is applied to a minted token
verifyToken(verifier, minted) ==
  /\ resp' = [op |-> verifier, mintedBy |-> minted.mintedBy, token |-> minted.token,
              at |-> now,
              result |-> IF verifier = "verifyAccessToken"
                         THEN JWTUtils_verifyAccessToken(minted.token, now)
                         ELSE JWTUtils_verifyRefreshToken(minted.token, now)]
  /\ UNCHANGED <<now, users, tenants, branches, categories, refresh_tokens,
                 accessTokens, req, streak, lockSet, revokedAll>>

\* tokens of both kinds are minted for one claims record at any time and each is
\* handed to either verifier
TokenKindNext ==
  \/ Tick
  \/ \E minter \in Minters : mintToken(minter)
  \/ \E verifier \in Verifiers : \E minted \in accessTokens :
        verifyToken(verifier, minted)

SpecTokenKind == InitJwt /\ [][TokenKindNext]_vars

\* ------------------------------------- AuthMiddleware: role, tenant, branch
\* req.user when authenticate has not set it
NoUser == [id |-> NoId, role |-> NoId, tenantId |-> NoId, branchId |-> NoId]

\* a value that JavaScript's || and ! take as absent: undefined, null, ''
Falsy == {Undefined, NoId, ""}

\* a || b || c
FirstTruthy(a, b, c) == IF a \notin Falsy THEN a ELSE IF b \notin Falsy THEN b ELSE c

\* a request-tenant lookup that reads the body before the path
requestTenantId_BodyFirst(params, body, query) == FirstTruthy(body, params, query)

\* req.params.tenantId || req.body.tenantId || req.query.tenantId
requestTenantId(params, body, query) == FirstTruthy(params, body, query)

\* what a middleware did: the status it answered (200 stands for next()) and the
\* security events it logged before answering
Outcome(code, events) == [code |-> code, events |-> events]

\* AuthMiddleware.authorize(allowedRoles), second version
AuthMiddleware_authorize(allowedRoles, user) ==
  IF user = NoUser THEN Outcome(401, <<>>)
  ELSE IF user.role \notin allowedRoles
  THEN Outcome(403, <<[event |-> "Authorization failed", userId |-> user.id,
                       role |-> user.role, requiredRoles |-> allowedRoles,
                       tenantId |-> user.tenantId]>>)
  ELSE Outcome(200, <<>>)

\* AuthMiddleware.enforceTenantIsolation, second version
enforceTenantIsolation(user, params, body, query) ==
  LET requested == requestTenantId(params, body, query) IN
  IF user = NoUser THEN Outcome(401, <<>>)
  ELSE IF user.role = "super_admin" THEN Outcome(200, <<>>)
  ELSE IF user.tenantId \in Falsy THEN Outcome(403, <<>>)
  ELSE IF requested \notin Falsy /\ user.tenantId # requested
  THEN Outcome(403, <<[event |-> "Tenant isolation violation attempt",
                       userId |-> user.id, userTenantId |-> user.tenantId,
                       requestedTenantId |-> requested]>>)
  ELSE Outcome(200, <<>>)

\* AuthMiddleware.enforceBranchAccess
enforceBranchAccess(user, params, body, query) ==
  LET requested == FirstTruthy(params, body, query) IN
  IF user = NoUser THEN Outcome(401, <<>>)
  ELSE IF user.role \in {"super_admin", "tenant_admin"} THEN Outcome(200, <<>>)
  ELSE IF /\ user.role = "branch_admin"
          /\ requested \notin Falsy
          /\ user.branchId # requested
  THEN Outcome(403, <<[event |-> "Branch access violation attempt",
                       userId |-> user.id, userBranchId |-> user.branchId,
                       requestedBranchId |-> requested]>>)
  ELSE Outcome(200, <<>>)

\* the principals a request may carry: none, the four seeded ones, and a tenant
\* admin whose row has no tenant
ScopeUsers ==
  {NoUser} \cup {AuthContext(SessionOf(u)) : u \in UserIds}
           \cup {[id |-> "u5", role |-> "tenant_admin", tenantId |-> NoId,
                  branchId |-> NoId]}

\* what a request carries in one of its three places for an id
Given(ids) == ids \cup {Undefined, ""}

\* a request waits for the tenant-scope check
ScopeRequests ==
  {[op |-> "request", user |-> user, params |-> p, body |-> b, query |-> q] :
     user \in ScopeUsers, p \in Given(TenantIds), b \in Given(TenantIds),
     q \in Given(TenantIds)}

InitScope ==
  /\ now = 0
  /\ users = SeedUsers
  /\ tenants = SeedTenants
  /\ branches = SeedBranches
  /\ categories = SeedCategories
  /\ refresh_tokens = {}
  /\ accessTokens = {}
  /\ req = [s \in Slots |-> IdleReq]
  /\ resp \in ScopeRequests
  /\ streak = [u \in UserIds |-> 0]
  /\ lockSet = [u \in UserIds |-> NULL]
  /\ revokedAll = {}

\* the request passes through enforceTenantIsolation
checkTenantIsolation ==
  /\ resp.op = "request"
  /\ LET outcome == enforceTenantIsolation(resp.user, resp.params, resp.body, resp.query)
     IN resp' = [op |-> "enforceTenantIsolation", user |-> resp.user,
                 params |-> resp.params, body |-> resp.body, query |-> resp.query,
                 code |-> outcome.code, events |-> outcome.events]
  /\ UNCHANGED <<now, users, tenants, branches, categories, refresh_tokens,
                 accessTokens, req, streak, lockSet, revokedAll>>

ScopeNext == checkTenantIsolation

SpecScope == InitScope /\ [][ScopeNext]_vars

\* the branch test inside GET /inventory/:branchId and its sibling routes: a branch
\* admin is confined to its own branch
routeBranchCheck(user, branchId) ==
  IF user.role = "branch_admin" /\ user.branchId # branchId
  THEN Outcome(403, <<>>)
  ELSE Outcome(200, <<>>)

\* a request waits for the branch checks
BranchRequests ==
  {[op |-> "branchRequest", user |-> user, params |-> p, body |-> b, query |-> q] :
     user \in ScopeUsers, p \in Given(BranchIds), b \in {Undefined, "B2"},
     q \in {Undefined}}

InitDeny ==
  /\ now = 0
  /\ users = SeedUsers
  /\ tenants = SeedTenants
  /\ branches = SeedBranches
  /\ categories = SeedCategories
  /\ refresh_tokens = {}
  /\ accessTokens = {}
  /\ req = [s \in Slots |-> IdleReq]
  /\ resp \in ScopeRequests \cup BranchRequests
  /\ streak = [u \in UserIds |-> 0]
  /\ lockSet = [u \in UserIds |-> NULL]
  /\ revokedAll = {}

\* the outcome of a middleware, with the request it was given
Checked(op, outcome) ==
  [op |-> op, user |-> resp.user, params |-> resp.params, body |-> resp.body,
   query |-> resp.query, code |-> outcome.code, events |-> outcome.events]

\* the request passes through authorize(allowedRoles)
checkAuthorize(allowedRoles) ==
  /\ resp.op \in {"request", "branchRequest"}
  /\ resp' = Checked("authorize", AuthMiddleware_authorize(allowedRoles, resp.user))
  /\ UNCHANGED <<now, users, tenants, branches, categories, refresh_tokens,
                 accessTokens, req, streak, lockSet, revokedAll>>

\* the request passes through enforceBranchAccess
checkBranchAccess ==
  /\ resp.op = "branchRequest"
  /\ resp' = Checked("enforceBranchAccess",
                     enforceBranchAccess(resp.user, resp.params, resp.body, resp.query))
  /\ UNCHANGED <<now, users, tenants, branches, categories, refresh_tokens,
                 accessTokens, req, streak, lockSet, revokedAll>>

\* the request, authenticated, reaches the branch check of an inventory route
checkRouteBranch ==
  /\ resp.op = "branchRequest"
  /\ resp.user # NoUser
  /\ resp.params \in BranchIds
  /\ resp' = Checked("routeBranchCheck", routeBranchCheck(resp.user, resp.params))
  /\ UNCHANGED <<now, users, tenants, branches, categories, refresh_tokens,
                 accessTokens, req, streak, lockSet, revokedAll>>

\* a request meets one of the four authorization checks
DenyNext ==
  \/ \E allowedRoles \in {{"super_admin"}, {"super_admin", "tenant_admin"}, Roles} :
        checkAuthorize(allowedRoles)
  \/ checkTenantIsolation
  \/ checkBranchAccess
  \/ checkRouteBranch

SpecDeny == InitDeny /\ [][DenyNext]_vars

\* a refresh token issued a week ago, which expires at tick 1
OldToken ==
  generateRefreshToken(Claims("u2", SeedUsers["u2"]), 1 - RefreshTTL, 0)

InitSession ==
  /\ now = 0
  /\ users = SeedUsers
  /\ tenants = SeedTenants
  /\ branches = SeedBranches
  /\ categories = SeedCategories
  /\ refresh_tokens \in {{}, {[token |-> OldToken, user_id |-> "u2",
                                expires_at |-> OldToken.exp, is_revoked |-> FALSE]}}
  /\ accessTokens = {}
  /\ req = [s \in Slots |-> IdleReq]
  /\ resp = NoResp
  /\ streak = [u \in UserIds |-> 0]
  /\ lockSet = [u \in UserIds |-> NULL]
  /\ revokedAll = {}

\* the session lifecycle of one principal, with the administrator acting on it
SessionNext ==
  \/ Tick
  \/ LoginRead(1, "alice", TRUE)
  \/ LoginUpdate(1)
  \/ LoginInsert(1, FALSE)
  \/ \E tok \in Presentable : refreshToken(tok)
  \/ \E tok \in Presentable \cup {NoBearer} : authenticate(tok)
  \/ \E tok \in accessTokens, cur \in BOOLEAN, strong \in BOOLEAN :
        changePassword(tok, cur, strong)
  \/ \E active \in BOOLEAN : updateUser1("u1", "u2", [isActive |-> active])
  \/ \E actor \in {"u1", "u2"} : deleteUser(actor, "u2")
  \/ \E tok \in accessTokens, cur \in BOOLEAN, name \in {"alice", "alicia", "bob"} :
        changeCredentials(tok, cur, name, TRUE)
  \/ resetUserPassword1("u1", "u2")
  \/ resetUserPassword("u1", "u2")

Spec == InitSession /\ [][SessionNext]_vars

\* two principals logging in, logging out and refreshing
LogoutNext ==
  \/ \E identifier \in {"alice", "carol"} : LoginRead(1, identifier, TRUE)
  \/ LoginUpdate(1)
  \/ LoginInsert(1, FALSE)
  \/ \E bearer \in accessTokens \cup {NoBearer}, tok \in Presentable \cup {NoBearer} :
        logout(bearer, tok)
  \/ \E tok \in Presentable : refreshToken(tok)

SpecLogout == InitSession /\ [][LogoutNext]_vars

\* a principal logs in and presents its access token while its refresh tokens are
\* revoked by logout, password change, credential change and an administrator's
\* reset, and while the principal and its tenant are switched off and on
RevokeNext ==
  \/ Tick
  \/ LoginRead(1, "alice", TRUE)
  \/ LoginUpdate(1)
  \/ LoginInsert(1, FALSE)
  \/ \E tok \in accessTokens \cup {NoBearer} : authenticate(tok)
  \/ \E bearer \in accessTokens, tok \in {x.token : x \in refresh_tokens} :
        logout(bearer, tok)
  \/ \E tok \in accessTokens, cur \in BOOLEAN : changePassword(tok, cur, TRUE)
  \/ \E tok \in accessTokens, name \in {"alice", "alicia"} :
        changeCredentials(tok, TRUE, name, TRUE)
  \/ resetUserPassword1("u1", "u2")
  \/ \E active \in BOOLEAN : updateUser1("u1", "u2", [isActive |-> active])
  \/ \E active \in BOOLEAN : updateTenant(SessionOf("u1"), "T1", [isActive |-> active])

SpecRevoke == InitSession /\ [][RevokeNext]_vars

\* a tenant whose status the super administrator changes, and one of its
\* principals logging in, refreshing and presenting tokens
TenantNext ==
  \/ Tick
  \/ LoginRead(1, "alice", TRUE)
  \/ LoginUpdate(1)
  \/ LoginInsert(1, FALSE)
  \/ \E tok \in Presentable : refreshToken(tok)
  \/ \E tok \in Presentable \cup {NoBearer} : authenticate(tok)
  \/ \E updateData \in TenantUpdates : updateTenant(SessionOf("u1"), "T1", updateData)
  \/ deleteTenant(SessionOf("u1"), "T1")

SpecTenant == InitStore /\ [][TenantNext]_vars

\* a tenant is deleted while one of its principals logs in, refreshes and presents
\* tokens, and the super administrator goes on updating that principal's row
TenantDeleteNext ==
  \/ Tick
  \/ LoginRead(1, "alice", TRUE)
  \/ LoginUpdate(1)
  \/ LoginInsert(1, FALSE)
  \/ \E tok \in Presentable : refreshToken(tok)
  \/ \E tok \in Presentable \cup {NoBearer} : authenticate(tok)
  \/ deleteTenant(SessionOf("u1"), "T1")
  \/ \E active \in BOOLEAN : updateUser1("u1", "u2", [isActive |-> active])

SpecTenantDelete == InitStore /\ [][TenantDeleteNext]_vars

\* what a client can send as its bearer token: a session of any principal, no
\* token, or a forgery
Bearers == {SessionOf(u) : u \in UserIds} \cup {NoBearer, ForgedToken}

\* requests to the routes, by every kind of caller
ApiNext ==
  \/ \E bearer \in Bearers, isActive \in BOOLEAN :
        updateTenant(bearer, "T2", [isActive |-> isActive])
  \/ \E bearer \in Bearers, slug \in {NoId, "T1", "T3"} : postTenants(bearer, slug)
  \/ \E bearer \in Bearers, slug \in {NoId, "T1", "T3"} : postAdminTenants(bearer, slug)
  \/ \E bearer \in Bearers, t \in TenantIds \cup {NoId} : getProducts(bearer, t)
  \/ \E bearer \in Bearers, id \in CategoryIds : putCategory(bearer, id, "meat")
  \/ \E bearer \in Bearers, id \in CategoryIds : deleteCategory(bearer, id)
  \/ \E bearer \in Bearers, b \in BranchIds : getInventory(bearer, b)
  \/ \E bearer \in Bearers, b \in BranchIds : getBranch(bearer, b)
  \/ \E bearer \in Bearers : deleteBranch(bearer, "B1")

SpecApi == InitStore /\ [][ApiNext]_vars

\* categories are created and renamed by every kind of caller, with and without
\* a tenant id in the body
WriteNext ==
  \/ \E bearer \in Bearers, bodyTenantId \in TenantIds \cup {NoId} :
        postCategory(bearer, bodyTenantId, "bakery")
  \/ \E bearer \in Bearers, id \in CategoryIds, name \in {"meat", "dairy"} :
        putCategory(bearer, id, name)

SpecWrite == InitStore /\ [][WriteNext]_vars

\* ------------------------------------------------------------------ claims

\* C1: once MaxLoginAttempts wrong-password calls have occurred with no successful
\* login in between and a lock was set, every login call that starts before that
\* lockUntil has elapsed ends with AccountLocked (and so issues no tokens), also
\* with the correct password.
C1_LockedOut ==
  (resp.op = "login" /\ resp.atStart.mustLock) => resp.status = "AccountLocked"

\* C2: every request of a non-super-admin caller that declares a tenant id (path,
\* body or query) other than the caller's own tenant is answered 403 Forbidden,
\* whether or not the caller's role is one the route allows.
C2_ForeignTenantForbidden ==
  (/\ resp.op \in ApiOps
   /\ resp.auth = "ok"
   /\ resp.caller.role # "super_admin"
   /\ resp.tenantId # NoId
   /\ resp.tenantId # resp.caller.tenantId) => resp.code = 403

\* C3: no user, branch, category, product or inventory request of a tenant_admin
\* modifies or soft-deletes a row whose stored tenant is not the caller's tenant,
\* and none returns such a row.
C3_TenantAdminConfined ==
  [][(/\ resp'.op \in {"getProducts", "putCategory", "deleteCategory", "getInventory",
                       "getBranch", "deleteBranch"}
      /\ resp'.caller.role = "tenant_admin") =>
       /\ \A c \in CategoryIds :
            categories[c].tenant_id # resp'.caller.tenantId => categories'[c] = categories[c]
       /\ \A b \in BranchIds :
            branches[b].tenant_id # resp'.caller.tenantId => branches'[b] = branches[b]
       /\ \A u \in UserIds :
            users[u].tenant_id # resp'.caller.tenantId => users'[u] = users[u]
       /\ resp'.rowTenant \in {NoId, resp'.caller.tenantId}]_vars

\* C4: every request of a branch_admin that targets a branch other than the
\* caller's own is denied (403, or 404 when the branch does not exist) and returns
\* or writes no row of that branch.
C4_ForeignBranchForbidden ==
  (/\ resp.op \in ApiOps
   /\ resp.auth = "ok"
   /\ resp.caller.role = "branch_admin"
   /\ resp.branchId # NoId
   /\ resp.branchId # resp.caller.branchId) =>
     (resp.code \in {403, 404} /\ resp.rowBranch = NoId)

\* C5: a refresh token that was covered by a revoke-all of its principal stays
\* revoked in every later state, and every refreshToken call with it fails.
C5_RevokedNeverRefreshes ==
  /\ \A x \in refresh_tokens : x.token \in revokedAll => x.is_revoked
  /\ (resp.op = "refresh" /\ resp.token \in revokedAll) => resp.status # "ok"

\* a login-issued token, still within its signature lifetime and owned by an active
\* principal, was refused after a revoke-all
C5_Witness ==
  /\ resp.op = "refresh"
  /\ resp.token \in revokedAll
  /\ resp.token.iat >= 0
  /\ verifyRefreshToken(resp.token, now)
  /\ \E x \in refresh_tokens : x.token = resp.token /\ users[x.user_id].is_active
  /\ resp.status = "Invalid refresh token"

\* C6: a principal whose soft-delete marker is set gets no tokens from a login call
\* started after the deletion, and no refreshToken or authenticate call succeeds
\* for it, whatever ran after the deletion.
C6_DeletedNeverAuthenticates ==
  /\ (resp.op = "login" /\ resp.atStart.deleted) => resp.status # "ok"
  /\ (resp.op \in {"refresh", "authenticate"} /\ resp.status = "ok") =>
        ~users[resp.user].deleted_at

\* C7: for a non-super-admin principal whose tenant is inactive, soft-deleted,
\* suspended or cancelled, login issues no tokens, refreshToken issues no access
\* token and authenticate rejects the bearer token.
C7_BlockedTenantRejected ==
  /\ (resp.op = "login" /\ resp.atStart.tenantBlocked) => resp.status # "ok"
  /\ (resp.op \in {"refresh", "authenticate"} /\ resp.status = "ok") =>
        ~TenantBlocked(users[resp.user])

\* C8: a request to a route that reads or writes principal, tenant or branch
\* records and carries no bearer token that authenticate accepts is answered 401,
\* and the store is unchanged.
C8_GateFirst ==
  [][(resp'.op \in ApiOps /\ resp'.auth # "ok") =>
       /\ resp'.code = 401
       /\ UNCHANGED <<users, tenants, branches, categories, refresh_tokens>>]_vars

\* C9: the success-path UPDATE of every login call leaves the principal with
\* failed-attempt counter 0 and lockUntil cleared, and a login call answers
\* success only after that UPDATE.
C9_SuccessResets ==
  [][/\ \A s \in Slots :
          (req[s].pc = "update" /\ req'[s].pc = "insert") =>
             /\ users'[req[s].uid].failed_login_attempts = 0
             /\ users'[req[s].uid].locked_until = NULL
     /\ (resp'.op = "login" /\ resp'.status = "ok") =>
          \E s \in Slots : req[s].pc = "insert" /\ req'[s].pc = "idle"]_vars

\* a login succeeded for a principal read with a full failed-attempt counter
\* (its lock had elapsed)
C9_Witness ==
  resp.op = "login" /\ resp.status = "ok" /\ resp.before >= MaxLoginAttempts

\* C10: refreshToken answers with a new access token exactly when the presented
\* token has a valid refresh signature, a record exists for it, the record is not
\* revoked, its stored expiry has not passed and the owner exists and is active;
\* otherwise it fails and issues nothing, and in both cases it writes nothing.
C10_RefreshOnlyIfValid ==
  [][resp'.op = "refresh" =>
       /\ resp'.status = "ok" <=>
            /\ verifyRefreshToken(resp'.token, now)
            /\ \E x \in refresh_tokens :
                 /\ x.token = resp'.token
                 /\ ~x.is_revoked
                 /\ now <= x.expires_at
                 /\ x.user_id \in UserIds
                 /\ users[x.user_id].is_active
       /\ resp'.status # "ok" => accessTokens' = accessTokens
       /\ UNCHANGED <<users, refresh_tokens>>]_vars

\* a token with a valid signature and a live record was refused because its owner
\* is inactive
C10_Witness ==
  /\ resp.op = "refresh"
  /\ resp.status = "User not found or inactive"
  /\ verifyRefreshToken(resp.token, now)
  /\ \E x \in refresh_tokens : x.token = resp.token /\ ~x.is_revoked

\* C11: every successful changePassword, changeCredentials or admin password reset
\* for a principal leaves every refresh-token record of that principal revoked, and
\* a refreshToken call with a token that such a step covered fails.
C11_CredentialChangeRevokes ==
  [][/\ (/\ resp'.op \in {"changePassword", "changeCredentials", "resetPassword"}
         /\ resp'.status = "ok") =>
          LET P == IF resp'.op = "resetPassword" THEN resp'.target ELSE resp'.user
          IN /\ \A x \in refresh_tokens' : x.user_id = P => x.is_revoked
             /\ \A x \in refresh_tokens :
                  x.user_id = P => [x EXCEPT !.is_revoked = TRUE] \in refresh_tokens'
     /\ (resp'.op = "refresh" /\ resp'.token \in revokedAll) => resp'.status # "ok"]_vars

\* a credential change went through for a principal that held a live login-issued
\* refresh token, which is now revoked
C11_Witness ==
  /\ resp.op = "changeCredentials"
  /\ resp.status = "ok"
  /\ \E x \in refresh_tokens :
       x.user_id = resp.user /\ x.token.iat >= 0 /\ x.is_revoked /\ now <= x.expires_at

\* C12: after a logout by a principal, every refresh-token record of that principal
\* is revoked.
C12_LogoutRevokesAll ==
  [][(resp'.op = "logout" /\ resp'.status = "ok") =>
       \A x \in refresh_tokens' : x.user_id = resp'.user => x.is_revoked]_vars

\* C13: a logout that presents a refresh token of another principal leaves every
\* record of other principals as it was, and every authenticated logout gets the
\* same success answer, whoever owns the presented token and whether it exists.
C13_LogoutOwnTokenOnly ==
  [][(resp'.op = "logout" /\ resp'.user # NoId) =>
       /\ resp'.status = "ok"
       /\ \A x \in refresh_tokens : x.user_id # resp'.user => x \in refresh_tokens'
       /\ \A x \in refresh_tokens' : x.user_id # resp'.user => x \in refresh_tokens]_vars

\* a logout that presented a live token of another principal, which is still live
C13_Witness ==
  /\ resp.op = "logout"
  /\ resp.status = "ok"
  /\ \E x \in refresh_tokens :
       x.token = resp.token /\ x.user_id # resp.user /\ ~x.is_revoked

\* C14: a logout that presents an already revoked refresh token answers success and
\* leaves the token store exactly as it was.
C14_RevokeIdempotent ==
  [][(/\ resp'.op = "logout"
      /\ resp'.user # NoId
      /\ \E x \in refresh_tokens : x.token = resp'.token /\ x.is_revoked) =>
       (resp'.status = "ok" /\ refresh_tokens' = refresh_tokens)]_vars

\* the caller's own token, revoked by an earlier logout, was presented again
C14_Witness ==
  /\ resp.op = "logout"
  /\ resp.status = "ok"
  /\ resp.already
  /\ \E x \in refresh_tokens : x.token = resp.token /\ x.user_id = resp.user

\* C15: a login whose identifier matches no principal answers 'Invalid
\* credentials', the answer of a wrong password for an existing active unlocked
\* principal, never 'Account is inactive' or an error of the server, and it
\* changes no stored state.
C15_UnknownLikeWrongPassword ==
  [][/\ \A identifier \in Identifiers, valid \in BOOLEAN :
          (findUser(identifier) = {} /\ LoginRead(1, identifier, valid)) =>
             /\ resp'.status = "InvalidCredentials"
             /\ UNCHANGED <<users, tenants, branches, categories, refresh_tokens,
                            accessTokens, req>>
     /\ (req[1].pc = "update" /\ ~req[1].valid /\ LoginUpdate(1)) =>
          (resp'.op = "login" /\ resp'.status = "InvalidCredentials")]_vars

\* a login with an unknown identifier was answered while the known principal
\* was inactive
C15_Witness ==
  /\ resp.op = "login"
  /\ resp.user = NoId
  /\ resp.status = "InvalidCredentials"
  /\ ~users["u2"].is_active

\* C16: a failed login answers what it answers when no principal has the
\* identifier, whether the principal exists and whether it is active, inactive
\* or locked.
C16_FailureHidesExistence ==
  [][(resp'.op = "login" /\ resp'.status # "ok") =>
        resp'.status = LoginReadOutcome({}, now)]_vars

\* C17: a create-user call of a tenant admin that names a tenant other than the
\* caller's fails, through the route with Forbidden, and leaves the users table
\* as it was.
C17_CreateForeignTenantForbidden ==
  [][(/\ resp'.op \in {"postAdminUsers", "createUser"}
      /\ users[resp'.user].role = "tenant_admin"
      /\ resp'.username # NoId
      /\ resp'.tenantId \notin {NoId, users[resp'.user].tenant_id}) =>
        /\ resp'.status # "ok"
        /\ resp'.op = "postAdminUsers" => resp'.status = "Forbidden"
        /\ users' = users]_vars

\* the tenant admin of T1 asked the route for a user of T2 and was refused
C17_Witness ==
  /\ resp.op = "postAdminUsers"
  /\ resp.status = "Forbidden"
  /\ users[resp.user].role = "tenant_admin"
  /\ users[resp.user].tenant_id = "T1"
  /\ resp.tenantId = "T2"
  /\ DOMAIN users = UserIds

\* C18: a row created by a tenant admin has the caller's tenant, a role that is
\* neither tenant_admin nor super_admin, and a branch, if any, of that tenant.
C18_TenantAdminCreatesConfined ==
  [][(/\ resp'.op \in {"postAdminUsers", "postBranchAdmins", "createUser"}
      /\ resp'.status = "ok"
      /\ users[resp'.user].role = "tenant_admin") =>
        LET row == users'[resp'.target]
            T == users[resp'.user].tenant_id
        IN /\ row.tenant_id = T
           /\ row.role \notin {"tenant_admin", "super_admin"}
           /\ row.branch_id # NoId => branches[row.branch_id].tenant_id = T]_vars

\* C19: an update, delete or password reset by a tenant admin whose target is of
\* another tenant, or is a different tenant admin, fails and leaves the target's
\* row and refresh tokens as they were.
C19_TenantAdminTargetsOwnTenant ==
  [][(/\ resp'.op \in {"updateUser", "deleteUser", "resetPassword"}
      /\ users[resp'.user].role = "tenant_admin"
      /\ \/ users[resp'.target].tenant_id # users[resp'.user].tenant_id
         \/ users[resp'.target].role = "tenant_admin" /\ resp'.target # resp'.user) =>
        /\ resp'.status # "ok"
        /\ users'[resp'.target] = users[resp'.target]
        /\ {x \in refresh_tokens' : x.user_id = resp'.target}
             = {x \in refresh_tokens : x.user_id = resp'.target}]_vars

\* C20: a deleteUser whose target is the caller fails, whatever the caller's
\* role, and leaves the caller's row and refresh tokens as they were.
C20_NoSelfDelete ==
  [][(resp'.op = "deleteUser" /\ resp'.target = resp'.user) =>
        /\ resp'.status # "ok"
        /\ users'[resp'.user] = users[resp'.user]
        /\ {x \in refresh_tokens' : x.user_id = resp'.user}
             = {x \in refresh_tokens : x.user_id = resp'.user}]_vars

\* C21: in every reachable state every super_admin row has no tenant and no
\* branch, every tenant_admin and branch_admin row has a tenant, and every
\* branch_admin row has a branch of its tenant.
C21_RoleReferences ==
  \A u \in DOMAIN users :
    LET row == users[u] IN
    /\ row.role = "super_admin" => (row.tenant_id = NoId /\ row.branch_id = NoId)
    /\ row.role \in {"tenant_admin", "branch_admin"} => row.tenant_id # NoId
    /\ row.role = "branch_admin" =>
         /\ row.branch_id # NoId
         /\ branches[row.branch_id].tenant_id = row.tenant_id

\* C22: validatePasswordStrength accepts a password exactly when it has at least
\* 12 characters, an upper-case letter, a lower-case letter, a digit and a
\* character of the special class; the error list of a rejected password has one
\* entry for each violated rule and no other; "short1!" is rejected with the
\* minimum-length message and "ThisIsLong12345!" is accepted.
C22_PasswordRules ==
  resp.op = "validatePasswordStrength" =>
    LET p == resp.password
        violated ==
          {m \in {"Password must be at least 12 characters long",
                  "Password must contain at least one uppercase letter",
                  "Password must contain at least one lowercase letter",
                  "Password must contain at least one number",
                  "Password must contain at least one special character"} :
             \/ m = "Password must be at least 12 characters long" /\ Len(p) < 12
             \/ /\ m = "Password must contain at least one uppercase letter"
                /\ \A i \in 1..Len(p) : p[i] \notin UpperCase
             \/ /\ m = "Password must contain at least one lowercase letter"
                /\ \A i \in 1..Len(p) : p[i] \notin LowerCase
             \/ /\ m = "Password must contain at least one number"
                /\ \A i \in 1..Len(p) : p[i] \notin Digits
             \/ /\ m = "Password must contain at least one special character"
                /\ \A i \in 1..Len(p) : p[i] \notin Special}
        errors == resp.result.errors
    IN /\ resp.result.isValid <=> violated = {}
       /\ {errors[i] : i \in 1..Len(errors)} = violated
       /\ Len(errors) = Cardinality(violated)
       /\ p = Short1 =>
            \E i \in 1..Len(errors) : errors[i] = "Password must be at least 12 characters long"
       /\ p = ThisIsLong => resp.result.isValid

\* a password of 13 characters with a letter of each case and a digit, but only
\* a character outside the special class, was rejected for that one rule
C22_Witness ==
  /\ resp.op = "validatePasswordStrength"
  /\ resp.password = <<"A", "a", "1">> \o Pad("~", 10)
  /\ resp.result.errors = <<"Password must contain at least one special character">>

\* C23: verifyAccessToken, applied before expiry to the token generateAccessToken
\* minted for a claims record, returns claims equal to that record in principal
\* id, username, role, tenant id and branch id.
C23_AccessTokenRoundTrip ==
  (/\ resp.op = "verifyAccessToken"
   /\ resp.token \in accessTokens
   /\ resp.at < resp.token.body.exp) =>
     /\ "error" \notin DOMAIN resp.result
     /\ \A i \in 1..Len(ClaimKeys) :
          resp.result[ClaimKeys[i]] = resp.payload[ClaimKeys[i]]

\* a token minted for claims with a null tenant and no branch field was verified
\* before its expiry
C23_Witness ==
  /\ resp.op = "verifyAccessToken"
  /\ resp.token \in accessTokens
  /\ resp.at < resp.token.body.exp
  /\ resp.payload.tenantId = NoId
  /\ resp.payload.branchId = Undefined
  /\ resp.result.role = "super_admin"

C25_EveryIncrementCounts ==
  \A u \in UserIds :
    streak[u] < MaxFailed =>
      /\ users[u].failed_login_attempts = streak[u]
      /\ streak[u] >= MaxLoginAttempts => users[u].locked_until # NULL

\* C26: once a lock is set to a future time, no wrong-password login call clears
\* or shortens it before it has elapsed.
C26_LockNeverShortened ==
  [][\A s \in Slots :
       (/\ req[s].pc = "update"
        /\ ~req[s].valid
        /\ req'[s].pc = "idle"
        /\ IsLocked(users[req[s].uid], now)) =>
          /\ users'[req[s].uid].locked_until # NULL
          /\ users'[req[s].uid].locked_until >= users[req[s].uid].locked_until]_vars

\* C27: a login call that fails after the password was verified leaves neither
\* the counter reset nor the last-login stamp nor a refresh-token record behind,
\* and a refresh token is handed out only with its record persisted.
C27_LoginAllOrNothing ==
  [][/\ (resp'.op = "login" /\ resp'.status = "error") =>
          LET row == users'[resp'.user] IN
          /\ row.failed_login_attempts = resp'.before
          /\ row.last_login_at # NULL =>
               \E x \in refresh_tokens' :
                 x.user_id = resp'.user /\ x.token.iat = row.last_login_at
          /\ refresh_tokens' = refresh_tokens
     /\ (resp'.op = "login" /\ resp'.status = "ok") =>
          \E x \in refresh_tokens' : x.token = resp'.token]_vars

\* C28: a changePassword or changeCredentials call that fails (unknown principal,
\* wrong current password, username taken, weak new password, or a store error
\* at any statement) leaves every user row (username, password hash,
\* must_change_password) and every refresh-token record as they were.
C28_FailedChangeWritesNothing ==
  [][(resp'.op \in {"changePassword", "changeCredentials"} /\ resp'.status # "ok") =>
        /\ users' = users
        /\ refresh_tokens' = refresh_tokens]_vars

\* a changeCredentials call failed at the revoke-all, after its UPDATE of the
\* row, and the principal still has the seeded password, the flag and a live
\* refresh token
C28_Witness ==
  /\ resp.op = "changeCredentials"
  /\ resp.status = "error"
  /\ resp.failAt = "revoke"
  /\ resp.message = "store error"
  /\ resp.user = "u2"
  /\ users["u2"].must_change_password
  /\ users["u2"].password = bcryptHash(<<"s", "e", "e", "d">>)
  /\ \E x \in refresh_tokens : x.user_id = "u2" /\ ~x.is_revoked

C30_RecordsKeptAndStayRevoked ==
  [][\A x \in refresh_tokens :
       \E y \in refresh_tokens' :
         /\ y.token = x.token
         /\ y.user_id = x.user_id
         /\ y.expires_at = x.expires_at
         /\ x.is_revoked => y.is_revoked]_vars

\* the principal was deleted while holding two refresh tokens, one of them
\* already expired: both records are still there, revoked
C30_Witness ==
  /\ resp.op = "deleteUser"
  /\ resp.status = "ok"
  /\ Cardinality({x \in refresh_tokens : x.user_id = resp.target /\ x.is_revoked}) = 2
  /\ \E x \in refresh_tokens : x.user_id = resp.target /\ x.expires_at <= now

\* C31: a refresh token is never accepted as an access token and an access token
\* is never accepted as a refresh token: verifyAccessToken rejects every token
\* minted by generateRefreshToken, and verifyRefreshToken rejects every token
\* minted by generateAccessToken.
C31_TokenKindsSeparate ==
  /\ (resp.op = "verifyAccessToken" /\ resp.mintedBy = "generateRefreshToken") =>
        resp.result = [error |-> "Invalid access token"]
  /\ (resp.op = "verifyRefreshToken" /\ resp.mintedBy = "generateAccessToken") =>
        resp.result = [error |-> "Invalid refresh token"]

\* an access token that has not expired was handed to verifyRefreshToken, after
\* a refresh token for the same claims had been minted
C31_Witness ==
  /\ resp.op = "verifyRefreshToken"
  /\ resp.mintedBy = "generateAccessToken"
  /\ resp.at < resp.token.body.exp
  /\ \E minted \in accessTokens : minted.mintedBy = "generateRefreshToken"
  /\ "error" \in DOMAIN resp.result

\* C32: no update-user call made by a TenantAdmin changes any principal's role:
\* the target's role is the same before and after the call.
C32_TenantAdminUpdateKeepsRoles ==
  [][(/\ resp'.op = "updateUser"
      /\ users[resp'.user].role = "tenant_admin") =>
        \A u \in UserIds : users'[u].role = users[u].role]_vars

\* C33: for every write request (POST, PUT or PATCH) by a non-SuperAdmin principal
\* that omits tenantId, the tenant id used for the write is the principal's own
\* tenant id; no such write is executed with an absent tenant id or with another
\* tenant's id.
C33_OmittedTenantIsOwnTenant ==
  (/\ resp.op \in {"postCategory", "putCategory"}
   /\ resp.code \in {200, 201}
   /\ resp.caller.role # "super_admin"
   /\ resp.tenantId = NoId) =>
     /\ resp.rowTenant # NoId
     /\ resp.rowTenant = resp.caller.tenantId

C35_LoginLogsOneEvent ==
  (/\ resp.op = "login"
   /\ resp.status \in {"InvalidCredentials", "AccountInactive", "AccountLocked", "ok"}) =>
     Cardinality({i \in DOMAIN resp.events :
                    resp.events[i].type \in {"security", "audit"}}) = 1

\* a call for a locked principal ended with its one security event, followed by
\* the error entry of the catch block
C35_Witness ==
  /\ resp.op = "login"
  /\ resp.status = "AccountLocked"
  /\ Len(resp.events) = 2
  /\ resp.events[1] = Security("Login attempt with locked user", "u2")

\* C36: every authorization denial (role not in the required roles, tenant
\* mismatch, missing tenant context, branch mismatch) emits a security event
\* carrying the principal id and role before the Forbidden response is sent.
C36_DenialLogsPrincipalAndRole ==
  (/\ resp.op \in {"authorize", "enforceTenantIsolation", "enforceBranchAccess",
                   "routeBranchCheck"}
   /\ resp.code = 403) =>
     \E i \in DOMAIN resp.events :
       /\ {"userId", "role"} \subseteq DOMAIN resp.events[i]
       /\ resp.events[i].userId = resp.user.id
       /\ resp.events[i].role = resp.user.role

\* C37: lock expiry does not reset the failed-attempt counter: after lockUntil has
\* elapsed a login with the correct password succeeds, but a single wrong password
\* locks the principal again at once for a full lockout period.
C37_ExpiredLockKeepsCounter ==
  [][/\ (now' # now) =>
          \A u \in UserIds :
            users'[u].failed_login_attempts = users[u].failed_login_attempts
     /\ \A valid \in BOOLEAN :
          (/\ LoginRead(1, "alice", valid)
           /\ users["u2"].is_active
           /\ users["u2"].locked_until # NULL
           /\ now >= users["u2"].locked_until) =>
             /\ users["u2"].failed_login_attempts >= MaxLoginAttempts
             /\ req'[1].pc = "update"
     /\ (/\ LoginUpdate(1)
         /\ req[1].snapshot.failed_login_attempts >= MaxLoginAttempts) =>
            IF req[1].valid
            THEN req'[1].pc = "insert"
            ELSE /\ resp'.status = "InvalidCredentials"
                 /\ users'[req[1].uid].locked_until = now + LockoutTime
                 /\ IsLocked(users'[req[1].uid], now)
     /\ (/\ LoginInsert(1, FALSE)
         /\ req[1].snapshot.failed_login_attempts >= MaxLoginAttempts) =>
            (resp'.status = "ok" /\ resp'.token \in {x.token : x \in refresh_tokens'})]_vars

\* after a lock had run out, one wrong password was answered and the principal was
\* locked again for a full lockout period
C37_Witness ==
  /\ resp.op = "login"
  /\ resp.user = "u2"
  /\ resp.status = "InvalidCredentials"
  /\ resp.before >= MaxLoginAttempts
  /\ now >= LockoutTime
  /\ users["u2"].locked_until = now + LockoutTime

\* C38: refreshToken changes no stored state: it does not rotate, revoke or extend
\* the presented refresh token and does not touch the principal's row, so the same
\* refresh token can be used any number of times until it is revoked or its stored
\* expiry passes.
C38_RefreshWritesNothing ==
  [][(resp'.op = "refresh") =>
        /\ UNCHANGED <<users, tenants, branches, categories, refresh_tokens>>
        /\ \A x \in refresh_tokens :
             (resp'.token = x.token /\ resp'.status = "ok") =>
                (RefreshOutcome(x.token))' = "ok"]_vars

\* the refresh token of the login at tick 0 was used at tick 1 and again at tick 2
C38_Witness ==
  /\ resp.op = "refresh"
  /\ resp.status = "ok"
  /\ resp.token.iat = 0
  /\ now = 2
  /\ \E a \in accessTokens : a.iat = 1 /\ a.payload.userId = resp.user
  /\ \E a \in accessTokens : a.iat = 2 /\ a.payload.userId = resp.user

\* C39: revoking refresh tokens (logout, password change, credential change, admin
\* reset) does not invalidate access tokens already issued: such an access token
\* keeps passing authenticate until it expires, as long as its principal and
\* tenant stay active.
C39_RevocationKeepsAccessTokens ==
  (/\ resp.op = "authenticate"
   /\ resp.token \in accessTokens
   /\ now < resp.token.exp
   /\ \E x \in refresh_tokens : x.user_id = resp.user
   /\ \A x \in refresh_tokens : x.user_id = resp.user => x.is_revoked
   /\ users[resp.user].is_active
   /\ ~users[resp.user].deleted_at
   /\ users[resp.user].tenant_id # NoId
   /\ tenants[users[resp.user].tenant_id].is_active
   /\ tenants[users[resp.user].tenant_id].subscription_status
        \notin {"cancelled", "suspended"}) =>
     resp.status = "ok"

\* alice's access token passed the gate after her only new refresh token had been
\* revoked and her username changed
C39_Witness ==
  /\ resp.op = "authenticate"
  /\ resp.status = "ok"
  /\ resp.user = "u2"
  /\ resp.token \in accessTokens
  /\ users["u2"].username = "alicia"
  /\ \E x \in refresh_tokens : x.user_id = "u2" /\ x.token.iat = 0
  /\ \A x \in refresh_tokens : x.user_id = "u2" => x.is_revoked

\* C40: after deleteTenant(T) completes, T, every branch of T and every principal
\* of T are soft-deleted and inactive, and no principal of T can login, refresh a
\* token or pass authenticate in any later state, although their refresh-token
\* records are not revoked by the deletion. (A login counts when it starts with the
\* principal already soft-deleted.)
C40_DeletedTenantLocksOut ==
  [][/\ (resp'.op = "deleteTenant" /\ resp'.code = 200) =>
          /\ tenants'["T1"].deleted_at /\ ~tenants'["T1"].is_active
          /\ \A u \in UserIds :
               users'[u].tenant_id = "T1" => users'[u].deleted_at /\ ~users'[u].is_active
          /\ \A b \in BranchIds :
               branches'[b].tenant_id = "T1" =>
                 branches'[b].deleted_at /\ ~branches'[b].is_active
          /\ refresh_tokens' = refresh_tokens
     /\ tenants["T1"].deleted_at =>
          /\ (/\ resp'.op = "login"
              /\ resp'.user \in UserIds
              /\ users[resp'.user].tenant_id = "T1"
              /\ resp'.atStart.deleted) => resp'.status # "ok"
          /\ (resp'.op = "refresh" /\ resp'.status = "ok") =>
                users[resp'.user].tenant_id # "T1"
          /\ (resp'.op = "authenticate" /\ resp'.status = "ok") =>
                users[resp'.user].tenant_id # "T1"]_vars

====
